---- MODULE Spec2Model ----
(***************************************************************************)
(* Subtitle (SRT) lookup engine: timestamp codec, caption indexer, the     *)
(* modification-time cache and the window readers of src/src/tool/const.ts *)
(* and src/src/tool/read_srt.ts.                                           *)
(*                                                                         *)
(* A JavaScript string is a sequence of one-character strings, so that     *)
(* parsing, splitting, trimming and joining are computed character by      *)
(* character.  null is the empty tuple, a present value v is <<v>>.        *)
(***************************************************************************)
EXTENDS Integers, Sequences, FiniteSets, TLC

VARIABLES
    fs,                  \* the file system: path -> file (or missing)
    srtCache,            \* const.ts:109, path -> SrtCacheValue (or no entry)
    SRT_CONTEXT_WINDOW,  \* const.ts:1
    SRT_INIT_WINDOW,     \* const.ts:7
    input,               \* the arguments a run draws at its start
    call,                \* the last public call made since the files and the
                         \* windows last changed: operation, path, argument
    res,                 \* the JSON record that call returned
    io,                  \* statSync / readFileSync calls made by the last call, index replaced
    frames,              \* const.ts:177-193, the activations of getSrtData that are
                         \* under way step by step, one for each caller
    history,             \* the modification times the files have had so far
    storage              \* srt_tools.test.ts:223-226, a PostgreSQLPersistentStorage
                         \* and the call to it that is under way

vars ==
    <<fs, srtCache, SRT_CONTEXT_WINDOW, SRT_INIT_WINDOW, input, call, res, io, frames,
      history, storage>>

----------------------------------------------------------------------------
(* Values *)

Null == <<>>

Some(v) == <<v>>

Max(a, b) == IF a >= b THEN a ELSE b

Min(a, b) == IF a <= b THEN a ELSE b

Digits == {"0", "1", "2", "3", "4", "5", "6", "7", "8", "9"}

\* \d of a JavaScript regular expression without the u flag
IsDigit(c) == c \in Digits

\* \s and the characters String.prototype.trim strips, as far as the inputs hold them
IsSpace(c) == c \in {" ", "\t", "\r", "\n", "\f"}

DigitValue(c) ==
    CASE c = "0" -> 0 [] c = "1" -> 1 [] c = "2" -> 2 [] c = "3" -> 3 [] c = "4" -> 4
      [] c = "5" -> 5 [] c = "6" -> 6 [] c = "7" -> 7 [] c = "8" -> 8 [] c = "9" -> 9

\* Number(text) of a string of decimal digits
RECURSIVE Number(_)
Number(s) ==
    IF s = <<>> THEN 0
    ELSE Number(SubSeq(s, 1, Len(s) - 1)) * 10 + DigitValue(s[Len(s)])

----------------------------------------------------------------------------
(* Timestamp codec *)

\* \d{2}:\d{2}:\d{2},\d{3} matched at position i of s
TsAt(s, i) ==
    /\ i >= 1
    /\ i + 11 <= Len(s)
    /\ \A k \in {0, 1, 3, 4, 6, 7, 9, 10, 11} : IsDigit(s[i + k])
    /\ s[i + 2] = ":"
    /\ s[i + 5] = ":"
    /\ s[i + 8] = ","

\* the hours converted without the factor of 1000
parseTimestampHoursShort(value) ==
    IF ~(Len(value) = 12 /\ TsAt(value, 1)) THEN Null
    ELSE LET hours == Number(SubSeq(value, 1, 2))
             minutes == Number(SubSeq(value, 4, 5))
             seconds == Number(SubSeq(value, 7, 8))
             milliseconds == Number(SubSeq(value, 10, 12))
         IN  Some(hours * 60 * 60 + minutes * 60 * 1000 + seconds * 1000
                  + milliseconds)

\* the minutes converted with a factor of 100 for 1000
parseTimestampShifted(value) ==
    IF ~(Len(value) = 12 /\ TsAt(value, 1)) THEN Null
    ELSE LET hours == Number(SubSeq(value, 1, 2))
             minutes == Number(SubSeq(value, 4, 5))
             seconds == Number(SubSeq(value, 7, 8))
             milliseconds == Number(SubSeq(value, 10, 12))
         IN  Some(hours * 60 * 60 * 1000 + minutes * 60 * 100 + seconds * 1000
                  + milliseconds)

\* the pattern without its end anchor
parseTimestampLenient(value) ==
    IF ~TsAt(value, 1) THEN Null
    ELSE LET hours == Number(SubSeq(value, 1, 2))
             minutes == Number(SubSeq(value, 4, 5))
             seconds == Number(SubSeq(value, 7, 8))
             milliseconds == Number(SubSeq(value, 10, 12))
         IN  Some(hours * 60 * 60 * 1000 + minutes * 60 * 1000 + seconds * 1000
                  + milliseconds)

\* const.ts:111-131.  The pattern is anchored at both ends.
parseTimestamp(value) ==
    IF ~(Len(value) = 12 /\ TsAt(value, 1)) THEN Null
    ELSE LET hours == Number(SubSeq(value, 1, 2))
             minutes == Number(SubSeq(value, 4, 5))
             seconds == Number(SubSeq(value, 7, 8))
             milliseconds == Number(SubSeq(value, 10, 12))
         IN  Some(hours * 60 * 60 * 1000 + minutes * 60 * 1000 + seconds * 1000
                  + milliseconds)

\* read_srt.ts:8-28, the same code
readSrtParseTimestamp(value) ==
    IF ~(Len(value) = 12 /\ TsAt(value, 1)) THEN Null
    ELSE LET hours == Number(SubSeq(value, 1, 2))
             minutes == Number(SubSeq(value, 4, 5))
             seconds == Number(SubSeq(value, 7, 8))
             milliseconds == Number(SubSeq(value, 10, 12))
         IN  Some(hours * 60 * 60 * 1000 + minutes * 60 * 1000 + seconds * 1000
                  + milliseconds)

----------------------------------------------------------------------------
(* File loader and caption indexer *)

\* the members of a finite set of integers in ascending order
RECURSIVE Ascending(_)
Ascending(S) ==
    IF S = {} THEN <<>>
    ELSE LET least == CHOOSE i \in S : \A j \in S : i <= j
         IN  <<least>> \o Ascending(S \ {least})

\* String.prototype.split(/\r?\n/): the separators are the line feeds, each with
\* the carriage return just before it if there is one; the k-th piece runs from
\* after the (k-1)-th separator to before the k-th, the last one to the end
Split(content) ==
    LET feeds == Ascending({i \in 1..Len(content) : content[i] = "\n"})
        count == Len(feeds)
        first(k) == IF k = 1 THEN 1 ELSE feeds[k - 1] + 1
        last(k) ==
            IF k = count + 1 THEN Len(content)
            ELSE IF feeds[k] - 1 >= first(k) /\ content[feeds[k] - 1] = "\r"
                 THEN feeds[k] - 2 ELSE feeds[k] - 1
    IN  [k \in 1..(count + 1) |-> SubSeq(content, first(k), last(k))]

\* line.trim().length > 0
NonBlank(line) == \E k \in 1..Len(line) : ~IsSpace(line[k])

\* the first position at or after i that holds no white space
RECURSIVE SpaceRunEnd(_, _)
SpaceRunEnd(s, i) ==
    IF i <= Len(s) /\ IsSpace(s[i]) THEN SpaceRunEnd(s, i + 1) ELSE i

\* line.match(TIMESTAMP_REGEX), const.ts:94: Null, or the two captured groups.
\* The pattern is anchored at the start only.
TimestampMatch(line) ==
    IF ~(TsAt(line, 1) /\ Len(line) >= 13 /\ IsSpace(line[13])) THEN Null
    ELSE LET j == SpaceRunEnd(line, 13)
         IN  IF ~(j + 3 <= Len(line) /\ SubSeq(line, j, j + 2) = <<"-", "-", ">">>
                  /\ IsSpace(line[j + 3]))
             THEN Null
             ELSE LET k == SpaceRunEnd(line, j + 3)
                  IN  IF TsAt(line, k)
                      THEN Some(<<SubSeq(line, 1, 12), SubSeq(line, k, k + 11)>>)
                      ELSE Null

\* the block taken from the timing line downwards only
EntryStartAtTiming(lines, i) == i

\* const.ts:153-156; i is the 0-based index of the code
RECURSIVE EntryStart(_, _)
EntryStart(lines, i) ==
    IF i > 0 /\ NonBlank(lines[i]) THEN EntryStart(lines, i - 1) ELSE i

\* const.ts:158-164; cursor is the 0-based index of the code
RECURSIVE EntryLines(_, _)
EntryLines(lines, cursor) ==
    IF cursor < Len(lines) /\ NonBlank(lines[cursor + 1])
    THEN <<[lineNumber |-> cursor + 1, content |-> lines[cursor + 1]]>>
         \o EntryLines(lines, cursor + 1)
    ELSE <<>>

\* the loop with the end of a range read from the first timestamp of the line
RECURSIVE ExtractFromEndAsStart(_, _)
ExtractFromEndAsStart(lines, i) ==
    IF i >= Len(lines) THEN <<>>
    ELSE LET match == TimestampMatch(lines[i + 1])
         IN  IF match = Null THEN ExtractFromEndAsStart(lines, i + 1)
             ELSE LET start == parseTimestamp(match[1][1])
                      end == parseTimestamp(match[1][1])
                  IN  IF start = Null \/ end = Null
                      THEN ExtractFromEndAsStart(lines, i + 1)
                      ELSE <<[start |-> start[1], end |-> end[1], timestampLine |-> i,
                              entryLines |-> EntryLines(lines, EntryStart(lines, i))]>>
                           \o ExtractFromEndAsStart(lines, i + 1)

\* the loop left at the first line that is not a timing line
RECURSIVE ExtractFromStopping(_, _)
ExtractFromStopping(lines, i) ==
    IF i >= Len(lines) THEN <<>>
    ELSE LET match == TimestampMatch(lines[i + 1])
         IN  IF match = Null THEN <<>>
             ELSE LET start == parseTimestamp(match[1][1])
                      end == parseTimestamp(match[1][2])
                  IN  IF start = Null \/ end = Null THEN <<>>
                      ELSE <<[start |-> start[1], end |-> end[1], timestampLine |-> i,
                              entryLines |-> EntryLines(lines, EntryStart(lines, i))]>>
                           \o ExtractFromStopping(lines, i + 1)

\* const.ts:140-172, the loop from index i on
RECURSIVE ExtractFrom(_, _)
ExtractFrom(lines, i) ==
    IF i >= Len(lines) THEN <<>>
    ELSE LET match == TimestampMatch(lines[i + 1])
         IN  IF match = Null THEN ExtractFrom(lines, i + 1)
             ELSE LET start == parseTimestamp(match[1][1])
                      end == parseTimestamp(match[1][2])
                  IN  IF start = Null \/ end = Null THEN ExtractFrom(lines, i + 1)
                      ELSE <<[start |-> start[1], end |-> end[1], timestampLine |-> i,
                              entryLines |-> EntryLines(lines, EntryStart(lines, i))]>>
                           \o ExtractFrom(lines, i + 1)

\* const.ts:137-175
extractEntries(lines) == ExtractFrom(lines, 0)

----------------------------------------------------------------------------
(* File system *)

Paths == {"a.srt", "b.srt"}

NoFile == [exists |-> FALSE, readable |-> FALSE, content |-> <<>>, mtimeMs |-> 0]

File(content, mtimeMs, readable) ==
    [exists |-> TRUE, readable |-> readable, content |-> content, mtimeMs |-> mtimeMs]

ENOENT == "ENOENT: no such file or directory"

EACCES == "EACCES: permission denied"

\* node:fs statSync: throws on a missing file, needs no read permission
statSync(fsys, filePath) ==
    IF fsys[filePath].exists
    THEN [threw |-> FALSE, message |-> "", mtimeMs |-> fsys[filePath].mtimeMs]
    ELSE [threw |-> TRUE, message |-> ENOENT, mtimeMs |-> 0]

\* node:fs readFileSync(filePath, "utf-8"): throws on a missing or unreadable file
readFileSync(fsys, filePath) ==
    IF ~fsys[filePath].exists THEN [threw |-> TRUE, message |-> ENOENT, content |-> <<>>]
    ELSE IF ~fsys[filePath].readable
         THEN [threw |-> TRUE, message |-> EACCES, content |-> <<>>]
    ELSE [threw |-> FALSE, message |-> "", content |-> fsys[filePath].content]

----------------------------------------------------------------------------
(* Lookup cache *)

\* what getSrtData hands back: the value or the exception, the cache after the
\* call, and the number of metadata and content reads it made
Thrown(message, cache, stats, reads) ==
    [threw |-> TRUE, message |-> message, value |-> Null, cache |-> cache,
     stats |-> stats, reads |-> reads]

Returned(value, cache, stats, reads) ==
    [threw |-> FALSE, message |-> "", value |-> Some(value), cache |-> cache,
     stats |-> stats, reads |-> reads]

\* the cached index kept unless the file is newer than it
getSrtDataNewerOnly(cache, fsys, filePath) ==
    LET stats == statSync(fsys, filePath)
    IN  IF stats.threw THEN Thrown(stats.message, cache, 1, 0)
        ELSE LET version == stats.mtimeMs
                 cached == cache[filePath]
             IN  IF cached # Null /\ cached[1].version >= version
                 THEN Returned(cached[1], cache, 1, 0)
                 ELSE LET read == readFileSync(fsys, filePath)
                      IN  IF read.threw THEN Thrown(read.message, cache, 1, 1)
                          ELSE LET lines == Split(read.content)
                                   entries == extractEntries(lines)
                                   value == [version |-> version, lines |-> lines,
                                             entries |-> entries]
                               IN  Returned(value,
                                            [cache EXCEPT ![filePath] = Some(value)],
                                            1, 1)

\* the file read and indexed on every call
getSrtDataUncached(cache, fsys, filePath) ==
    LET stats == statSync(fsys, filePath)
    IN  IF stats.threw THEN Thrown(stats.message, cache, 1, 0)
        ELSE LET version == stats.mtimeMs
                 read == readFileSync(fsys, filePath)
             IN  IF read.threw THEN Thrown(read.message, cache, 1, 1)
                 ELSE LET lines == Split(read.content)
                          entries == extractEntries(lines)
                          value == [version |-> version, lines |-> lines,
                                    entries |-> entries]
                      IN  Returned(value, [cache EXCEPT ![filePath] = Some(value)], 1, 1)

\* the cached index handed out when the metadata read fails
getSrtDataStaleOnError(cache, fsys, filePath) ==
    LET stats == statSync(fsys, filePath)
    IN  IF stats.threw
        THEN IF cache[filePath] # Null THEN Returned(cache[filePath][1], cache, 1, 0)
             ELSE Thrown(stats.message, cache, 1, 0)
        ELSE LET version == stats.mtimeMs
                 cached == cache[filePath]
             IN  IF cached # Null /\ cached[1].version = version
                 THEN Returned(cached[1], cache, 1, 0)
                 ELSE LET read == readFileSync(fsys, filePath)
                      IN  IF read.threw THEN Thrown(read.message, cache, 1, 1)
                          ELSE LET lines == Split(read.content)
                                   entries == extractEntries(lines)
                                   value == [version |-> version, lines |-> lines,
                                             entries |-> entries]
                               IN  Returned(value,
                                            [cache EXCEPT ![filePath] = Some(value)],
                                            1, 1)

\* an index once cached is never replaced: a rebuilt one is returned, not stored
getSrtDataKeepsFirst(cache, fsys, filePath) ==
    LET stats == statSync(fsys, filePath)
    IN  IF stats.threw THEN Thrown(stats.message, cache, 1, 0)
        ELSE LET version == stats.mtimeMs
                 cached == cache[filePath]
             IN  IF cached # Null /\ cached[1].version = version
                 THEN Returned(cached[1], cache, 1, 0)
                 ELSE LET read == readFileSync(fsys, filePath)
                      IN  IF read.threw THEN Thrown(read.message, cache, 1, 1)
                          ELSE LET lines == Split(read.content)
                                   entries == extractEntries(lines)
                                   value == [version |-> version, lines |-> lines,
                                             entries |-> entries]
                               IN  Returned(value,
                                            IF cached # Null THEN cache
                                            ELSE [cache EXCEPT ![filePath] = Some(value)],
                                            1, 1)

\* a cache of one entry: storing an index drops the entries of the other paths
getSrtDataSingleEntry(cache, fsys, filePath) ==
    LET stats == statSync(fsys, filePath)
    IN  IF stats.threw THEN Thrown(stats.message, cache, 1, 0)
        ELSE LET version == stats.mtimeMs
                 cached == cache[filePath]
             IN  IF cached # Null /\ cached[1].version = version
                 THEN Returned(cached[1], cache, 1, 0)
                 ELSE LET read == readFileSync(fsys, filePath)
                      IN  IF read.threw THEN Thrown(read.message, cache, 1, 1)
                          ELSE LET lines == Split(read.content)
                                   entries == extractEntries(lines)
                                   value == [version |-> version, lines |-> lines,
                                             entries |-> entries]
                               IN  Returned(value,
                                            [p \in DOMAIN cache |->
                                                IF p = filePath THEN Some(value) ELSE Null],
                                            1, 1)

\* an entry once cached answers every later lookup, whatever the file's time
getSrtDataNeverStale(cache, fsys, filePath) ==
    LET stats == statSync(fsys, filePath)
    IN  IF stats.threw THEN Thrown(stats.message, cache, 1, 0)
        ELSE LET version == stats.mtimeMs
                 cached == cache[filePath]
             IN  IF cached # Null
                 THEN Returned(cached[1], cache, 1, 0)
                 ELSE LET read == readFileSync(fsys, filePath)
                      IN  IF read.threw THEN Thrown(read.message, cache, 1, 1)
                          ELSE LET lines == Split(read.content)
                                   entries == extractEntries(lines)
                                   value == [version |-> version, lines |-> lines,
                                             entries |-> entries]
                               IN  Returned(value,
                                            [cache EXCEPT ![filePath] = Some(value)],
                                            1, 1)

\* a lookup that throws forgets the entry of the path
getSrtDataDroppingOnError(cache, fsys, filePath) ==
    LET stats == statSync(fsys, filePath)
        dropped == [cache EXCEPT ![filePath] = Null]
    IN  IF stats.threw THEN Thrown(stats.message, dropped, 1, 0)
        ELSE LET version == stats.mtimeMs
                 cached == cache[filePath]
             IN  IF cached # Null /\ cached[1].version = version
                 THEN Returned(cached[1], cache, 1, 0)
                 ELSE LET read == readFileSync(fsys, filePath)
                      IN  IF read.threw THEN Thrown(read.message, dropped, 1, 1)
                          ELSE LET lines == Split(read.content)
                                   entries == extractEntries(lines)
                                   value == [version |-> version, lines |-> lines,
                                             entries |-> entries]
                               IN  Returned(value,
                                            [cache EXCEPT ![filePath] = Some(value)],
                                            1, 1)

\* const.ts:177-193
getSrtData(cache, fsys, filePath) ==
    LET stats == statSync(fsys, filePath)
    IN  IF stats.threw THEN Thrown(stats.message, cache, 1, 0)
        ELSE LET version == stats.mtimeMs
                 cached == cache[filePath]
             IN  IF cached # Null /\ cached[1].version = version
                 THEN Returned(cached[1], cache, 1, 0)
                 ELSE LET read == readFileSync(fsys, filePath)
                      IN  IF read.threw THEN Thrown(read.message, cache, 1, 1)
                          ELSE LET lines == Split(read.content)
                                   entries == extractEntries(lines)
                                   value == [version |-> version, lines |-> lines,
                                             entries |-> entries]
                               IN  Returned(value,
                                            [cache EXCEPT ![filePath] = Some(value)],
                                            1, 1)

\* const.ts:133-135; the lines are got.value[1].lines
loadSrtLines(cache, fsys, filePath) == getSrtData(cache, fsys, filePath)

\* read_srt.ts:30-33: no cache, one content read
readSrtLoadSrtLines(fsys, filePath) ==
    LET read == readFileSync(fsys, filePath)
    IN  IF read.threw THEN [threw |-> TRUE, message |-> read.message, lines |-> <<>>]
        ELSE [threw |-> FALSE, message |-> "", lines |-> Split(read.content)]

----------------------------------------------------------------------------
(* Array helpers *)

\* Array.prototype.slice(start, end)
Slice(arr, start, end) ==
    LET len == Len(arr)
        from == IF start < 0 THEN Max(len + start, 0) ELSE Min(start, len)
        to == IF end < 0 THEN Max(len + end, 0) ELSE Min(end, len)
    IN  SubSeq(arr, from + 1, to)

\* Array.prototype.join(sep) of an array of strings
RECURSIVE Join(_, _)
Join(arr, sep) ==
    IF arr = <<>> THEN <<>>
    ELSE IF Len(arr) = 1 THEN arr[1]
    ELSE arr[1] \o sep \o Join(Tail(arr), sep)

\* the elements numbered from 0, by the index of the line
NumberedFromZero(slice, startIndex) ==
    [index \in 1..Len(slice) |->
        [lineNumber |-> startIndex + (index - 1), content |-> slice[index]]]

\* slice.map((content, index) => ({ lineNumber: startIndex + index + 1, content }))
NumberedFrom(slice, startIndex) ==
    [index \in 1..Len(slice) |->
        [lineNumber |-> startIndex + (index - 1) + 1, content |-> slice[index]]]

----------------------------------------------------------------------------
(* Timestamp resolver *)

InvalidTimestamp == "Invalid timestamp format. Expected HH:MM:SS,mmm."

NoMatch == "No subtitle entry matches the provided timestamp."

Failure(message) == [success |-> FALSE, message |-> message]

\* what a public operation hands back: its JSON record and its effects
Outcome(result, cache, stats, reads) ==
    [result |-> result, cache |-> cache, stats |-> stats, reads |-> reads]

\* the loop with the start of a range excluded from it
RECURSIVE SearchLoopOpenStart(_, _, _, _)
SearchLoopOpenStart(entries, targetMs, left, right) ==
    IF ~(left <= right) THEN -1
    ELSE LET mid == (left + right) \div 2
             entry == entries[mid + 1]
         IN  IF targetMs <= entry.start
             THEN SearchLoopOpenStart(entries, targetMs, left, mid - 1)
             ELSE IF targetMs > entry.end
                  THEN SearchLoopOpenStart(entries, targetMs, mid + 1, right)
             ELSE mid

\* the loop with the end of a range excluded from it
RECURSIVE SearchLoopOpenEnd(_, _, _, _)
SearchLoopOpenEnd(entries, targetMs, left, right) ==
    IF ~(left <= right) THEN -1
    ELSE LET mid == (left + right) \div 2
             entry == entries[mid + 1]
         IN  IF targetMs < entry.start
             THEN SearchLoopOpenEnd(entries, targetMs, left, mid - 1)
             ELSE IF targetMs >= entry.end
                  THEN SearchLoopOpenEnd(entries, targetMs, mid + 1, right)
             ELSE mid

\* the loop falling back to the caption next to where the search ended
RECURSIVE SearchLoopNearest(_, _, _, _)
SearchLoopNearest(entries, targetMs, left, right) ==
    IF ~(left <= right)
    THEN IF Len(entries) = 0 THEN -1 ELSE Max(0, Min(left, Len(entries) - 1))
    ELSE LET mid == (left + right) \div 2
             entry == entries[mid + 1]
         IN  IF targetMs < entry.start
             THEN SearchLoopNearest(entries, targetMs, left, mid - 1)
             ELSE IF targetMs > entry.end
                  THEN SearchLoopNearest(entries, targetMs, mid + 1, right)
             ELSE mid

\* the loop taking the last caption left in the interval without comparing it
RECURSIVE SearchLoopLastCandidate(_, _, _, _)
SearchLoopLastCandidate(entries, targetMs, left, right) ==
    IF ~(left <= right) THEN -1
    ELSE LET mid == (left + right) \div 2
             entry == entries[mid + 1]
         IN  IF left = right THEN mid
             ELSE IF targetMs < entry.start
             THEN SearchLoopLastCandidate(entries, targetMs, left, mid - 1)
             ELSE IF targetMs > entry.end
                  THEN SearchLoopLastCandidate(entries, targetMs, mid + 1, right)
             ELSE mid

\* the loop going right past the caption next to the probed one
RECURSIVE SearchLoopSkipping(_, _, _, _)
SearchLoopSkipping(entries, targetMs, left, right) ==
    IF ~(left <= right) THEN -1
    ELSE LET mid == (left + right) \div 2
             entry == entries[mid + 1]
         IN  IF targetMs < entry.start
             THEN SearchLoopSkipping(entries, targetMs, left, mid - 1)
             ELSE IF targetMs > entry.end
                  THEN SearchLoopSkipping(entries, targetMs, mid + 2, right)
             ELSE mid

\* const.ts:209-222, the while loop: the 0-based index of the entry the search
\* stops at, or -1 when left > right
RECURSIVE SearchLoop(_, _, _, _)
SearchLoop(entries, targetMs, left, right) ==
    IF ~(left <= right) THEN -1
    ELSE LET mid == (left + right) \div 2
             entry == entries[mid + 1]
         IN  IF targetMs < entry.start
             THEN SearchLoop(entries, targetMs, left, mid - 1)
             ELSE IF targetMs > entry.end
                  THEN SearchLoop(entries, targetMs, mid + 1, right)
             ELSE mid

\* one probe of the loop: the interval and the index probed
Probe(left, right, mid) == [left |-> left, right |-> right, mid |-> mid]

\* the iterations of a loop that probes the left end of the interval
RECURSIVE SearchIterationsFromLeft(_, _, _, _)
SearchIterationsFromLeft(entries, targetMs, left, right) ==
    IF ~(left <= right) THEN <<>>
    ELSE LET mid == left
             entry == entries[mid + 1]
         IN  <<Probe(left, right, mid)>> \o
             (IF targetMs < entry.start
              THEN SearchIterationsFromLeft(entries, targetMs, left, mid - 1)
              ELSE IF targetMs > entry.end
                   THEN SearchIterationsFromLeft(entries, targetMs, mid + 1, right)
              ELSE <<>>)

\* const.ts:206-222, the iterations of the while loop in order: left and right
\* when the iteration starts, and mid
RECURSIVE SearchIterations(_, _, _, _)
SearchIterations(entries, targetMs, left, right) ==
    IF ~(left <= right) THEN <<>>
    ELSE LET mid == (left + right) \div 2
             entry == entries[mid + 1]
         IN  <<Probe(left, right, mid)>> \o
             (IF targetMs < entry.start
              THEN SearchIterations(entries, targetMs, left, mid - 1)
              ELSE IF targetMs > entry.end
                   THEN SearchIterations(entries, targetMs, mid + 1, right)
              ELSE <<>>)

\* the result with the window not clamped at the start of the file
MatchResultUnclamped(lines, entry, initWindow) ==
    LET matchedLineNumber == entry.timestampLine + 1
        startLineIndex == matchedLineNumber - 1 - initWindow
        endLineIndex == Min(Len(lines), matchedLineNumber - 1 + initWindow + 1)
        contextLines == Slice(lines, startLineIndex, endLineIndex)
    IN  [success |-> TRUE, startLine |-> startLineIndex + 1, endLine |-> endLineIndex,
         entry |-> entry.entryLines, contextLines |-> Join(contextLines, <<"\n">>)]

\* the result with the number of the matched timing line added to it
MatchResultWithLineNumber(lines, entry, initWindow) ==
    LET matchedLineNumber == entry.timestampLine + 1
        startLineIndex == Max(0, matchedLineNumber - 1 - initWindow)
        endLineIndex == Min(Len(lines), matchedLineNumber - 1 + initWindow + 1)
        contextLines == Slice(lines, startLineIndex, endLineIndex)
    IN  [success |-> TRUE, lineNumber |-> matchedLineNumber,
         startLine |-> startLineIndex + 1, endLine |-> endLineIndex,
         entry |-> entry.entryLines, contextLines |-> Join(contextLines, <<"\n">>)]

\* const.ts:223-239, the result built for the matched entry
MatchResult(lines, entry, initWindow) ==
    LET matchedLineNumber == entry.timestampLine + 1
        startLineIndex == Max(0, matchedLineNumber - 1 - initWindow)
        endLineIndex == Min(Len(lines), matchedLineNumber - 1 + initWindow + 1)
        contextLines == Slice(lines, startLineIndex, endLineIndex)
    IN  [success |-> TRUE, startLine |-> startLineIndex + 1, endLine |-> endLineIndex,
         entry |-> entry.entryLines, contextLines |-> Join(contextLines, <<"\n">>)]

\* const.ts:195-252
getLinesAtTimestamp(cache, fsys, initWindow, filePath, timestamp) ==
    LET targetMs == parseTimestamp(timestamp)
    IN  IF targetMs = Null THEN Outcome(Failure(InvalidTimestamp), cache, 0, 0)
        ELSE LET got == getSrtData(cache, fsys, filePath)
             IN  IF got.threw
                 THEN Outcome(Failure(got.message), got.cache, got.stats, got.reads)
                 ELSE LET lines == got.value[1].lines
                          entries == got.value[1].entries
                          mid == SearchLoop(entries, targetMs[1], 0, Len(entries) - 1)
                      IN  Outcome(IF mid = -1 THEN Failure(NoMatch)
                                  ELSE MatchResult(lines, entries[mid + 1], initWindow),
                                  got.cache, got.stats, got.reads)

\* the scan with the start of a range excluded from it
RECURSIVE ScanFromOpenStart(_, _, _)
ScanFromOpenStart(lines, targetMs, i) ==
    IF i >= Len(lines) THEN Failure(NoMatch)
    ELSE LET match == TimestampMatch(lines[i + 1])
         IN  IF match = Null THEN ScanFromOpenStart(lines, targetMs, i + 1)
             ELSE LET start == readSrtParseTimestamp(match[1][1])
                      end == readSrtParseTimestamp(match[1][2])
                  IN  IF start = Null \/ end = Null
                      THEN ScanFromOpenStart(lines, targetMs, i + 1)
                      ELSE IF targetMs > start[1] /\ targetMs <= end[1]
                           THEN [success |-> TRUE, lineNumber |-> i + 1,
                                 entry |-> EntryLines(lines, EntryStart(lines, i))]
                      ELSE ScanFromOpenStart(lines, targetMs, i + 1)

\* read_srt.ts:50-83, the scan from index i on
RECURSIVE ScanFrom(_, _, _)
ScanFrom(lines, targetMs, i) ==
    IF i >= Len(lines) THEN Failure(NoMatch)
    ELSE LET match == TimestampMatch(lines[i + 1])
         IN  IF match = Null THEN ScanFrom(lines, targetMs, i + 1)
             ELSE LET start == readSrtParseTimestamp(match[1][1])
                      end == readSrtParseTimestamp(match[1][2])
                  IN  IF start = Null \/ end = Null THEN ScanFrom(lines, targetMs, i + 1)
                      ELSE IF targetMs >= start[1] /\ targetMs <= end[1]
                           THEN [success |-> TRUE, lineNumber |-> i + 1,
                                 entry |-> EntryLines(lines, EntryStart(lines, i))]
                      ELSE ScanFrom(lines, targetMs, i + 1)

\* read_srt.ts:36-95
getLineNumberAtTimestamp(fsys, filePath, timestamp) ==
    LET targetMs == readSrtParseTimestamp(timestamp)
    IN  IF targetMs = Null THEN Outcome(Failure(InvalidTimestamp), Null, 0, 0)
        ELSE LET loaded == readSrtLoadSrtLines(fsys, filePath)
             IN  IF loaded.threw THEN Outcome(Failure(loaded.message), Null, 0, 1)
                 ELSE Outcome(ScanFrom(loaded.lines, targetMs[1], 0), Null, 0, 1)

----------------------------------------------------------------------------
(* Window reader *)

AtStartNote == "Requested line is at the start of the file."

AtEndNote == "Requested line is at or beyond the end of the file."

\* the window ending at the requested line instead of before it
readPreviousLinesInclusive(cache, fsys, contextWindow, filePath, lineNumber) ==
    IF lineNumber <= 1
    THEN Outcome([success |-> TRUE, lines |-> <<>>, firstLineNumber |-> Null,
                  note |-> AtStartNote], cache, 0, 0)
    ELSE LET got == loadSrtLines(cache, fsys, filePath)
         IN  IF got.threw
             THEN Outcome(Failure(got.message), got.cache, got.stats, got.reads)
             ELSE LET lines == got.value[1].lines
                      startIndex == Max(0, lineNumber - contextWindow)
                      endIndex == Max(0, lineNumber)
                      slice == Slice(lines, startIndex, endIndex)
                  IN  Outcome([success |-> TRUE,
                               firstLineNumber |->
                                   IF Len(slice) > 0 THEN Some(startIndex + 1) ELSE Null,
                               lines |-> NumberedFrom(slice, startIndex)],
                              got.cache, got.stats, got.reads)

\* const.ts:254-287
readPreviousLines(cache, fsys, contextWindow, filePath, lineNumber) ==
    IF lineNumber <= 1
    THEN Outcome([success |-> TRUE, lines |-> <<>>, firstLineNumber |-> Null,
                  note |-> AtStartNote], cache, 0, 0)
    ELSE LET got == loadSrtLines(cache, fsys, filePath)
         IN  IF got.threw
             THEN Outcome(Failure(got.message), got.cache, got.stats, got.reads)
             ELSE LET lines == got.value[1].lines
                      startIndex == Max(0, lineNumber - 1 - contextWindow)
                      endIndex == Max(0, lineNumber - 1)
                      slice == Slice(lines, startIndex, endIndex)
                  IN  Outcome([success |-> TRUE,
                               firstLineNumber |->
                                   IF Len(slice) > 0 THEN Some(startIndex + 1) ELSE Null,
                               lines |-> NumberedFrom(slice, startIndex)],
                              got.cache, got.stats, got.reads)

\* the window starting at the requested line instead of after it
readNextLinesInclusive(cache, fsys, contextWindow, filePath, lineNumber) ==
    LET got == loadSrtLines(cache, fsys, filePath)
    IN  IF got.threw
        THEN Outcome(Failure(got.message), got.cache, got.stats, got.reads)
        ELSE LET lines == got.value[1].lines
             IN  IF lineNumber >= Len(lines)
                 THEN Outcome([success |-> TRUE, lines |-> <<>>, lastLineNumber |-> Null,
                               note |-> AtEndNote], got.cache, got.stats, got.reads)
                 ELSE LET startIndex == Max(0, lineNumber - 1)
                          endIndex == Min(Len(lines), startIndex + contextWindow)
                          slice == Slice(lines, startIndex, endIndex)
                      IN  Outcome([success |-> TRUE,
                                   lastLineNumber |->
                                       IF Len(slice) > 0
                                       THEN Some(startIndex + Len(slice)) ELSE Null,
                                   lines |-> NumberedFrom(slice, startIndex)],
                                  got.cache, got.stats, got.reads)

\* a line number beyond the file reported as an error
readNextLinesRejecting(cache, fsys, contextWindow, filePath, lineNumber) ==
    LET got == loadSrtLines(cache, fsys, filePath)
    IN  IF got.threw
        THEN Outcome(Failure(got.message), got.cache, got.stats, got.reads)
        ELSE LET lines == got.value[1].lines
             IN  IF lineNumber > Len(lines)
                 THEN Outcome(Failure(AtEndNote), got.cache, got.stats, got.reads)
                 ELSE LET startIndex == Max(0, lineNumber)
                          endIndex == Min(Len(lines), startIndex + contextWindow)
                          slice == Slice(lines, startIndex, endIndex)
                      IN  Outcome([success |-> TRUE,
                                   lastLineNumber |->
                                       IF Len(slice) > 0
                                       THEN Some(startIndex + Len(slice)) ELSE Null,
                                   lines |-> NumberedFrom(slice, startIndex)],
                                  got.cache, got.stats, got.reads)

\* const.ts:289-322
readNextLines(cache, fsys, contextWindow, filePath, lineNumber) ==
    LET got == loadSrtLines(cache, fsys, filePath)
    IN  IF got.threw
        THEN Outcome(Failure(got.message), got.cache, got.stats, got.reads)
        ELSE LET lines == got.value[1].lines
             IN  IF lineNumber >= Len(lines)
                 THEN Outcome([success |-> TRUE, lines |-> <<>>, lastLineNumber |-> Null,
                               note |-> AtEndNote], got.cache, got.stats, got.reads)
                 ELSE LET startIndex == Max(0, lineNumber)
                          endIndex == Min(Len(lines), startIndex + contextWindow)
                          slice == Slice(lines, startIndex, endIndex)
                      IN  Outcome([success |-> TRUE,
                                   lastLineNumber |->
                                       IF Len(slice) > 0
                                       THEN Some(startIndex + Len(slice)) ELSE Null,
                                   lines |-> NumberedFrom(slice, startIndex)],
                                  got.cache, got.stats, got.reads)

\* read_srt.ts:97-130; the lines are read from the file, nothing is cached
readSrtReadPreviousLines(fsys, contextWindow, filePath, lineNumber) ==
    IF lineNumber <= 1
    THEN Outcome([success |-> TRUE, lines |-> <<>>, firstLineNumber |-> Null,
                  note |-> AtStartNote], Null, 0, 0)
    ELSE LET loaded == readSrtLoadSrtLines(fsys, filePath)
         IN  IF loaded.threw THEN Outcome(Failure(loaded.message), Null, 0, 1)
             ELSE LET lines == loaded.lines
                      startIndex == Max(0, lineNumber - 1 - contextWindow)
                      endIndex == Max(0, lineNumber - 1)
                      slice == Slice(lines, startIndex, endIndex)
                  IN  Outcome([success |-> TRUE,
                               firstLineNumber |->
                                   IF Len(slice) > 0 THEN Some(startIndex + 1) ELSE Null,
                               lines |-> NumberedFrom(slice, startIndex)],
                              Null, 0, 1)

\* read_srt.ts:132-165
readSrtReadNextLines(fsys, contextWindow, filePath, lineNumber) ==
    LET loaded == readSrtLoadSrtLines(fsys, filePath)
    IN  IF loaded.threw THEN Outcome(Failure(loaded.message), Null, 0, 1)
        ELSE LET lines == loaded.lines
             IN  IF lineNumber >= Len(lines)
                 THEN Outcome([success |-> TRUE, lines |-> <<>>, lastLineNumber |-> Null,
                               note |-> AtEndNote], Null, 0, 1)
                 ELSE LET startIndex == Max(0, lineNumber)
                          endIndex == Min(Len(lines), startIndex + contextWindow)
                          slice == Slice(lines, startIndex, endIndex)
                      IN  Outcome([success |-> TRUE,
                                   lastLineNumber |->
                                       IF Len(slice) > 0
                                       THEN Some(startIndex + Len(slice)) ELSE Null,
                                   lines |-> NumberedFrom(slice, startIndex)],
                                  Null, 0, 1)

\* a finite number that is no integer is the fraction num / den with den > 0
Rational(num, den) == [num |-> num, den |-> den]

Whole(n) == Rational(n, 1)

\* Math.floor: the greatest integer that is not above the number
Floor(value) == value.num \div value.den

\* the window with the number rounded up instead of down
ClampWindowCeiling(value) == Max(0, 0 - Floor(Rational(0 - value.num, value.den)))

\* const.ts:4 and const.ts:10: Math.max(0, Math.floor(value))
ClampWindow(value) == Max(0, Floor(value))

----------------------------------------------------------------------------
(* Inputs of the codec runs *)

DigitChar(d) ==
    CASE d = 0 -> "0" [] d = 1 -> "1" [] d = 2 -> "2" [] d = 3 -> "3" [] d = 4 -> "4"
      [] d = 5 -> "5" [] d = 6 -> "6" [] d = 7 -> "7" [] d = 8 -> "8" [] d = 9 -> "9"

Pad2(n) == <<DigitChar(n \div 10), DigitChar(n % 10)>>

Pad3(n) == <<DigitChar(n \div 100), DigitChar((n \div 10) % 10), DigitChar(n % 10)>>

\* the text HH:MM:SS,mmm of four field values
TimestampText(hh, mm, ss, ms) ==
    Pad2(hh) \o <<":">> \o Pad2(mm) \o <<":">> \o Pad2(ss) \o <<",">> \o Pad3(ms)

HourValues == {0, 1, 24}

MinuteValues == {0, 59, 99}

SecondValues == {0, 59, 60}

MillisecondValues == {0, 999}

\* strings of the form two digits : two digits : two digits , three digits
WellFormedTimestamps ==
    {TimestampText(hh, mm, ss, ms) :
        hh \in HourValues, mm \in MinuteValues, ss \in SecondValues,
        ms \in MillisecondValues}

\* strings of any other form: "99:99", "12:00:00.000", "", a field one digit short
\* or long, a leading blank, a trailing line feed, a letter, other separators, a
\* whole timing line
MalformedTimestamps ==
    {<<"9", "9", ":", "9", "9">>,
     <<"1", "2", ":", "0", "0", ":", "0", "0", ".", "0", "0", "0">>,
     <<>>,
     <<"1", ":", "0", "0", ":", "0", "0", ",", "0", "0", "0">>,
     <<"0", "0", ":", "0", "0", ":", "0", "0", ",", "0", "0">>,
     <<"0", "0", ":", "0", "0", ":", "0", "0", ",", "0", "0", "0", "0">>,
     <<" ", "0", "0", ":", "0", "0", ":", "0", "0", ",", "0", "0", "0">>,
     <<"0", "0", ":", "0", "0", ":", "0", "0", ",", "0", "0", "0", "\n">>,
     <<"0", "a", ":", "0", "0", ":", "0", "0", ",", "0", "0", "0">>,
     <<"0", "0", "-", "0", "0", "-", "0", "0", ",", "0", "0", "0">>,
     <<"0", "0", ":", "0", "0", ":", "0", "1", ",", "5", "0", "0", " ", "-", "-", ">", " ", "0", "0", ":", "0", "0", ":", "5", "9", ",", "9", "9", "9">>}

TimestampInputs == WellFormedTimestamps \union MalformedTimestamps

\* s is of the form HH:MM:SS,mmm, told without the parser: its length and the
\* character class of each position
IsTimestampForm(s) ==
    /\ Len(s) = 12
    /\ \A k \in 1..12 :
          CASE k \in {3, 6} -> s[k] = ":"
            [] k = 9 -> s[k] = ","
            [] OTHER -> s[k] \in Digits

\* the order of two characters in the code-unit order of JavaScript strings, for
\* the characters of a well-formed timestamp
CharRank(c) == IF c = "," THEN 0 ELSE IF c = ":" THEN 11 ELSE 1 + DigitValue(c)

\* a is lexicographically later than b
RECURSIVE LexLater(_, _)
LexLater(a, b) ==
    IF a = <<>> THEN FALSE
    ELSE IF b = <<>> THEN TRUE
    ELSE IF a[1] # b[1] THEN CharRank(a[1]) > CharRank(b[1])
    ELSE LexLater(Tail(a), Tail(b))

----------------------------------------------------------------------------
(* Sample subtitle text *)

\* instants in ascending order, as <<HH, MM, SS, mmm>>
TimePoints ==
    << <<0, 0, 0, 0>>, <<0, 0, 1, 500>>, <<0, 0, 59, 999>>, <<0, 1, 0, 0>>,
       <<0, 59, 59, 0>>, <<1, 0, 0, 0>>, <<1, 0, 0, 1>>, <<23, 59, 59, 999>>,
       <<24, 0, 0, 0>>, <<99, 59, 59, 999>> >>

PointText(i) ==
    TimestampText(TimePoints[i][1], TimePoints[i][2], TimePoints[i][3], TimePoints[i][4])

PointMs(i) ==
    ((TimePoints[i][1] * 60 + TimePoints[i][2]) * 60 + TimePoints[i][3]) * 1000
    + TimePoints[i][4]

BlankLine == <<>>

SpaceLine == <<" ", "\t">>

TextLine == <<"h", "e", "l", "l", "o">>

IndexLine == <<"1">>

\* three captions in ascending order with gaps between them; the second has a tab
\* and several blanks around the arrow and a trailing field
TimingA == PointText(2) \o <<" ", "-", "-", ">", " ">> \o PointText(3)

TimingB == PointText(5) \o <<"\t", "-", "-", ">", " ", " ">> \o PointText(6) \o <<" ", "X", "1", ":", "0">>

TimingC == PointText(8) \o <<" ", "-", "-", ">", " ">> \o PointText(9)

\* a timing line whose end lies before its start
TimingInverted == PointText(10) \o <<" ", "-", "-", ">", " ">> \o PointText(1)

\* no blank after the arrow: not a timing line
NearTimingLine == PointText(2) \o <<" ", "-", "-", ">">> \o PointText(3)

\* a two-caption file with line feeds, and a one-caption file with carriage
\* return + line feed and a trailing line break
SampleContent1 ==
    Join(<<IndexLine, TimingA, TextLine, BlankLine, IndexLine, TimingB, TextLine>>,
         <<"\n">>)

SampleContent2 ==
    Join(<<TimingC, TextLine, TextLine, BlankLine>>, <<"\r", "\n">>)

----------------------------------------------------------------------------
(* Operations *)

\* const.ts:1 and const.ts:7
DefaultContextWindow == 300

DefaultInitWindow == 100

Call(op, filePath, timestamp, lineNumber) ==
    [op |-> op, path |-> filePath, timestamp |-> timestamp, lineNumber |-> lineNumber]

NoCall == Call("none", "", <<>>, 0)

NoResult == [success |-> FALSE, message |-> "none"]

NoIo == [stats |-> 0, reads |-> 0, replaced |-> FALSE]

Input(timestamp, other, lineNumber) ==
    [timestamp |-> timestamp, other |-> other, lineNumber |-> lineNumber]

NoInput == Input(<<>>, <<>>, 0)

\* the callers whose lookups may be under way at the same time
Callers == {1, 2}

\* an activation of getSrtData: the line it stands at, its local constants, and
\* (for the claims) how many lookups the caller has begun, whether the file
\* was left alone since this one began (clean), and whether it was left alone
\* since the last read of the file this one made, the metadata read or the
\* content read (settled)
Frame(pc, count, clean, version, content, value) ==
    [pc |-> pc, count |-> count, clean |-> clean, settled |-> FALSE,
     version |-> version, content |-> content, value |-> value]

NoFrame == Frame("idle", 0, FALSE, 0, Null, Null)

\* a change of a file or of a window: the record of the last call is dropped
Forget ==
    /\ call' = NoCall /\ res' = NoResult /\ io' = NoIo
    /\ UNCHANGED <<frames, history, storage>>

\* a public operation of const.ts returns: its record, the cache it leaves, the
\* file system calls it made, and whether srtCache.set replaced an older index
Return(filePath, out) ==
    /\ res' = out.result
    /\ srtCache' = out.cache
    /\ io' = [stats |-> out.stats, reads |-> out.reads,
              replaced |-> srtCache[filePath] # Null
                            /\ out.cache[filePath] # srtCache[filePath]]
    /\ UNCHANGED <<fs, SRT_CONTEXT_WINDOW, SRT_INIT_WINDOW, input, frames, history, storage>>

CallGetLinesAtTimestamp(filePath, timestamp) ==
    /\ call' = Call("getLinesAtTimestamp", filePath, timestamp, 0)
    /\ Return(filePath, getLinesAtTimestamp(srtCache, fs, SRT_INIT_WINDOW, filePath, timestamp))

CallReadPreviousLines(filePath, lineNumber) ==
    /\ call' = Call("readPreviousLines", filePath, <<>>, lineNumber)
    /\ Return(filePath, readPreviousLines(srtCache, fs, SRT_CONTEXT_WINDOW, filePath, lineNumber))

CallReadNextLines(filePath, lineNumber) ==
    /\ call' = Call("readNextLines", filePath, <<>>, lineNumber)
    /\ Return(filePath, readNextLines(srtCache, fs, SRT_CONTEXT_WINDOW, filePath, lineNumber))

\* read_srt.ts keeps no cache
CallGetLineNumberAtTimestamp(filePath, timestamp) ==
    LET out == getLineNumberAtTimestamp(fs, filePath, timestamp)
    IN  /\ call' = Call("getLineNumberAtTimestamp", filePath, timestamp, 0)
        /\ res' = out.result
        /\ io' = [stats |-> out.stats, reads |-> out.reads, replaced |-> FALSE]
        /\ UNCHANGED <<fs, srtCache, SRT_CONTEXT_WINDOW, SRT_INIT_WINDOW, input, frames,
                     history, storage>>

\* the window readers of read_srt.ts: SRT_CONTEXT_WINDOW is the one of
\* const.ts, imported (read_srt.ts:2)
CallReadSrtReadPreviousLines(filePath, lineNumber) ==
    LET out == readSrtReadPreviousLines(fs, SRT_CONTEXT_WINDOW, filePath, lineNumber)
    IN  /\ call' = Call("read_srt.readPreviousLines", filePath, <<>>, lineNumber)
        /\ res' = out.result
        /\ io' = [stats |-> out.stats, reads |-> out.reads, replaced |-> FALSE]
        /\ UNCHANGED <<fs, srtCache, SRT_CONTEXT_WINDOW, SRT_INIT_WINDOW, input, frames,
                     history, storage>>

CallReadSrtReadNextLines(filePath, lineNumber) ==
    LET out == readSrtReadNextLines(fs, SRT_CONTEXT_WINDOW, filePath, lineNumber)
    IN  /\ call' = Call("read_srt.readNextLines", filePath, <<>>, lineNumber)
        /\ res' = out.result
        /\ io' = [stats |-> out.stats, reads |-> out.reads, replaced |-> FALSE]
        /\ UNCHANGED <<fs, srtCache, SRT_CONTEXT_WINDOW, SRT_INIT_WINDOW, input, frames,
                     history, storage>>

\* const.ts:3-5
SetSrtContextWindow(value) ==
    /\ SRT_CONTEXT_WINDOW' = ClampWindow(value)
    /\ Forget
    /\ UNCHANGED <<fs, srtCache, SRT_INIT_WINDOW, input>>

\* const.ts:9-11
SetSrtInitWindow(value) ==
    /\ SRT_INIT_WINDOW' = ClampWindow(value)
    /\ Forget
    /\ UNCHANGED <<fs, srtCache, SRT_CONTEXT_WINDOW, input>>

\* the codec applied to both timestamp strings of the run
ParseTimestamps ==
    /\ call' = Call("parseTimestamp", "", input.timestamp, 0)
    /\ res' = [a |-> parseTimestamp(input.timestamp), b |-> parseTimestamp(input.other)]
    /\ io' = NoIo
    /\ UNCHANGED <<fs, srtCache, SRT_CONTEXT_WINDOW, SRT_INIT_WINDOW, input, frames,
                     history, storage>>

----------------------------------------------------------------------------
(* PostgreSQLPersistentStorage, srt_tools.test.ts:223-308: the calls are
   awaited one after another; every awaited step may resolve or reject *)

MaxSavers == 3

NoReturn == [op |-> "none", threw |-> FALSE, value |-> Null]

Returning(op, value) == [op |-> op, threw |-> FALSE, value |-> value]

Throwing(op) == [op |-> op, threw |-> TRUE, value |-> Null]

\* srt_tools.test.ts:224-241, the object after its constructor: pool, saver
\* and connected are its fields; pc is the await the call under way stands at,
\* ret what the last call returned; (for the claims) steps counts the setup
\* steps completed since the object was last disconnected, savers the
\* PostgresSaver instances created so far
NewStorage ==
    [pool |-> "open", saver |-> Null, connected |-> FALSE,
     pc |-> "idle", ret |-> NoReturn, steps |-> 0, savers |-> 0]

Idle == storage.pc = "idle"

StorageStep(next) ==
    /\ storage' = next
    /\ UNCHANGED <<fs, srtCache, SRT_CONTEXT_WINDOW, SRT_INIT_WINDOW, input, call, res, io,
                   frames, history>>

\* a connect() that marks the object connected as soon as the pool answers
PoolConnectMarking(resolves) ==
    /\ storage.pc = "pool.connect"
    /\ StorageStep(
         IF resolves
         THEN [storage EXCEPT !.pc = "saver.setup", !.steps = 1, !.connected = TRUE,
                              !.saver = Some(storage.savers + 1),
                              !.savers = storage.savers + 1]
         ELSE [storage EXCEPT !.pc = "idle", !.ret = Throwing("connect")])

\* srt_tools.test.ts:245-248, connect() is called
Connect ==
    /\ Idle
    /\ storage.connected \/ storage.savers < MaxSavers
    /\ StorageStep(
         IF storage.connected
         THEN [storage EXCEPT !.ret = Returning("connect", Null)]
         ELSE [storage EXCEPT !.pc = "pool.connect", !.ret = NoReturn, !.steps = 0])

\* srt_tools.test.ts:252-257, await this.pool.connect(), then the saver is made
PoolConnect(resolves) ==
    /\ storage.pc = "pool.connect"
    /\ StorageStep(
         IF resolves
         THEN [storage EXCEPT !.pc = "saver.setup", !.steps = 1,
                              !.saver = Some(storage.savers + 1),
                              !.savers = storage.savers + 1]
         ELSE [storage EXCEPT !.pc = "idle", !.ret = Throwing("connect")])

\* srt_tools.test.ts:260, await this.saver.setup()
SaverSetup(resolves) ==
    /\ storage.pc = "saver.setup"
    /\ StorageStep(
         IF resolves
         THEN [storage EXCEPT !.pc = "createUserSessionMappingTable", !.steps = 2]
         ELSE [storage EXCEPT !.pc = "idle", !.ret = Throwing("connect")])

\* srt_tools.test.ts:264 and 317, await this.createUserSessionMappingTable()
CreateUserSessionMappingTable(resolves) ==
    /\ storage.pc = "createUserSessionMappingTable"
    /\ StorageStep(
         IF resolves
         THEN [storage EXCEPT !.pc = "createConversationAnalyticsTable", !.steps = 3]
         ELSE [storage EXCEPT !.pc = "idle", !.ret = Throwing("connect")])

\* srt_tools.test.ts:318 and 266, await this.createConversationAnalyticsTable(),
\* then this.connected = true
CreateConversationAnalyticsTable(resolves) ==
    /\ storage.pc = "createConversationAnalyticsTable"
    /\ StorageStep(
         IF resolves
         THEN [storage EXCEPT !.pc = "idle", !.steps = 4, !.connected = TRUE,
                              !.ret = Returning("connect", Null)]
         ELSE [storage EXCEPT !.pc = "idle", !.ret = Throwing("connect")])

\* srt_tools.test.ts:277-280, disconnect() is called
Disconnect ==
    /\ Idle
    /\ StorageStep(
         IF ~storage.connected
         THEN [storage EXCEPT !.ret = Returning("disconnect", Null)]
         ELSE [storage EXCEPT !.pc = "pool.end", !.ret = NoReturn])

\* srt_tools.test.ts:283-285, await this.pool.end()
PoolEnd(resolves) ==
    /\ storage.pc = "pool.end"
    /\ StorageStep(
         IF resolves
         THEN [storage EXCEPT !.pc = "idle", !.pool = "ended", !.connected = FALSE,
                              !.saver = Null, !.steps = 0,
                              !.ret = Returning("disconnect", Null)]
         ELSE [storage EXCEPT !.pc = "idle", !.ret = Throwing("disconnect")])

\* srt_tools.test.ts:296-301
GetSaver ==
    /\ Idle
    /\ StorageStep(
         IF storage.saver = Null \/ ~storage.connected
         THEN [storage EXCEPT !.ret = Throwing("getSaver")]
         ELSE [storage EXCEPT !.ret = Returning("getSaver", storage.saver)])

\* srt_tools.test.ts:306-308
IsConnected ==
    /\ Idle
    /\ StorageStep([storage EXCEPT !.ret = Returning("isConnected", Some(storage.connected))])

\* the state after the module is loaded, with the given files and arguments
Loaded(files, arguments) ==
    /\ fs = files
    /\ srtCache = [p \in Paths |-> Null]
    /\ SRT_CONTEXT_WINDOW = DefaultContextWindow
    /\ SRT_INIT_WINDOW = DefaultInitWindow
    /\ input = arguments
    /\ call = NoCall
    /\ res = NoResult
    /\ io = NoIo
    /\ frames = [k \in Callers |-> NoFrame]
    /\ history = [mtimes |-> {files[p].mtimeMs : p \in {q \in Paths : files[q].exists}},
                  fresh |-> TRUE, timed |-> TRUE, rewrites |-> 0]
    /\ storage = NewStorage

\* a.srt holds the given text, b.srt does not exist
OnlyA(content) == [p \in Paths |-> IF p = "a.srt" THEN File(content, 1, TRUE) ELSE NoFile]

----------------------------------------------------------------------------
(* Codec runs: two timestamp strings, a present file and a missing one *)

InitTimestamp ==
    \E a \in TimestampInputs, b \in TimestampInputs :
        Loaded(OnlyA(SampleContent2), Input(a, b, 0))

NextTimestamp ==
    \/ ParseTimestamps
    \/ \E p \in Paths : CallGetLinesAtTimestamp(p, input.timestamp)
    \/ \E p \in Paths : CallGetLineNumberAtTimestamp(p, input.timestamp)

SpecTimestamp == InitTimestamp /\ [][NextTimestamp]_vars

----------------------------------------------------------------------------
(* Resolver runs: one file of a few lines, one target instant *)

MaxResolveLines == 4

\* every sequence of 1..n lines of a catalog
LineSequences(catalog, n) == UNION {[1..k -> catalog] : k \in 1..n}

ResolveLines == {TimingA, TimingB, TimingC, TimingInverted, TextLine}

\* each line is a block of its own, with an empty line between two of them, so
\* that the entry lines of a caption tell which caption it is
ResolveFiles ==
    {Join(ls, <<"\n", "\n">>) : ls \in LineSequences(ResolveLines, MaxResolveLines)}

\* the starts and ends of the captions, the gaps between them, before and after
ResolveTargets == {PointText(i) : i \in {1, 2, 3, 4, 5, 7, 9, 10}}

InitResolve ==
    \E content \in ResolveFiles, timestamp \in ResolveTargets :
        Loaded(OnlyA(content), Input(timestamp, <<>>, 0))

NextResolve == CallGetLinesAtTimestamp("a.srt", input.timestamp)

SpecResolve == InitResolve /\ [][NextResolve]_vars

----------------------------------------------------------------------------
(* Window runs: one file of numbered lines, one line number, windows set *)

MaxWindowLines == 4

MaxContextWindow == 3

\* the text of n lines "01", "02", ...; no text at all for n = 0
NumberedContent(n) == Join([k \in 1..n |-> Pad2(k)], <<"\n">>)

\* line numbers below, inside and beyond every file
WindowLineNumbers == (-2)..(MaxWindowLines + 2)

InitWindow ==
    \E n \in 0..MaxWindowLines, lineNumber \in WindowLineNumbers :
        Loaded(OnlyA(NumberedContent(n)), Input(<<>>, <<>>, lineNumber))

NextWindow ==
    \/ \E value \in (-1)..MaxContextWindow : SetSrtContextWindow(Whole(value))
    \/ CallReadPreviousLines("a.srt", input.lineNumber)
    \/ CallReadNextLines("a.srt", input.lineNumber)

SpecWindow == InitWindow /\ [][NextWindow]_vars

----------------------------------------------------------------------------
(* The engine at work: a.srt is written, removed and made unreadable between
   the calls; b.srt never exists *)

MaxMtime == 2

MaxWindow == 1

MaxLineNumber == 3

SampleContents == {SampleContent1, SampleContent2}

\* inside the first caption of SampleContent1, and a malformed string
SampleTimestamps == {PointText(2), <<"9", "9", ":", "9", "9">>}

\* the file is created or rewritten: any content, any modification time
WriteFile(filePath, content, mtimeMs) ==
    /\ fs[filePath] # File(content, mtimeMs, fs[filePath].exists => fs[filePath].readable)
    /\ fs' = [fs EXCEPT ![filePath] =
                 File(content, mtimeMs, fs[filePath].exists => fs[filePath].readable)]
    /\ Forget
    /\ UNCHANGED <<srtCache, SRT_CONTEXT_WINDOW, SRT_INIT_WINDOW, input>>

RemoveFile(filePath) ==
    /\ fs[filePath].exists
    /\ fs' = [fs EXCEPT ![filePath] = NoFile]
    /\ Forget
    /\ UNCHANGED <<srtCache, SRT_CONTEXT_WINDOW, SRT_INIT_WINDOW, input>>

\* the read permission is taken away or given back; the modification time stays
SetReadable(filePath, readable) ==
    /\ fs[filePath].exists
    /\ fs[filePath].readable # readable
    /\ fs' = [fs EXCEPT ![filePath].readable = readable]
    /\ Forget
    /\ UNCHANGED <<srtCache, SRT_CONTEXT_WINDOW, SRT_INIT_WINDOW, input>>

Init == Loaded([p \in Paths |-> NoFile], NoInput)

Next ==
    \/ \E content \in SampleContents, mtimeMs \in 1..MaxMtime :
          WriteFile("a.srt", content, mtimeMs)
    \/ RemoveFile("a.srt")
    \/ \E readable \in BOOLEAN : SetReadable("a.srt", readable)
    \/ \E value \in (-1)..MaxWindow : SetSrtContextWindow(Whole(value))
    \/ \E value \in (-1)..MaxWindow : SetSrtInitWindow(Whole(value))
    \/ \E p \in Paths, timestamp \in SampleTimestamps : CallGetLinesAtTimestamp(p, timestamp)
    \/ \E p \in Paths, lineNumber \in 1..MaxLineNumber : CallReadPreviousLines(p, lineNumber)
    \/ \E p \in Paths, lineNumber \in 1..MaxLineNumber : CallReadNextLines(p, lineNumber)

Spec == Init /\ [][Next]_vars

----------------------------------------------------------------------------
(* Claims about the timestamp codec, under SpecTimestamp *)

\* the value of the n decimal digits of s from position i on
FieldValue(s, i, n) ==
    IF n = 2 THEN DigitValue(s[i]) * 10 + DigitValue(s[i + 1])
    ELSE DigitValue(s[i]) * 100 + DigitValue(s[i + 1]) * 10 + DigitValue(s[i + 2])

Lookups == {"getLinesAtTimestamp", "getLineNumberAtTimestamp"}

\* C8: for every timestamp string that is not of the form two digits : two digits
\* : two digits , three digits, getLinesAtTimestamp and getLineNumberAtTimestamp
\* return {success: false, message: "Invalid timestamp format. Expected
\* HH:MM:SS,mmm."}, whether the file exists or not.
C8_InvalidFormatFailure ==
    (call.op \in Lookups /\ ~IsTimestampForm(call.timestamp))
        => res = [success |-> FALSE, message |-> InvalidTimestamp]

\* "12:00:00.000" looked up in a file that does not exist
C8_Witness ==
    /\ call.op = "getLinesAtTimestamp"
    /\ ~fs[call.path].exists
    /\ call.timestamp = <<"1", "2", ":", "0", "0", ":", "0", "0", ".", "0", "0", "0">>
    /\ res.message = InvalidTimestamp

\* C9, as stated: over all accepted strings, a lexicographically later string
\* parses to a greater number.
C9_MonotonicOverAccepted ==
    (call.op = "parseTimestamp" /\ res.a # Null /\ res.b # Null
     /\ LexLater(input.timestamp, input.other))
        => res.a[1] > res.b[1]

\* the minutes and the seconds of s are at most 59
InClockRange(s) == FieldValue(s, 4, 2) <= 59 /\ FieldValue(s, 7, 2) <= 59

\* C9, amended: over the accepted strings whose minutes and seconds are at most
\* 59 (any hours), a lexicographically later string parses to a greater number.
C9_MonotonicInClockRange ==
    (call.op = "parseTimestamp" /\ res.a # Null /\ res.b # Null
     /\ InClockRange(input.timestamp) /\ InClockRange(input.other)
     /\ LexLater(input.timestamp, input.other))
        => res.a[1] > res.b[1]

\* 01:00:00,000 against 00:59:59,999: later by the hours alone
C9_Witness ==
    /\ call.op = "parseTimestamp"
    /\ input.timestamp = TimestampText(1, 0, 0, 0)
    /\ input.other = TimestampText(0, 59, 59, 999)
    /\ res.a # Null /\ res.b # Null
    /\ res.a[1] > res.b[1]

\* C10: every string of the form HH:MM:SS,mmm parses to
\* ((HH*60+MM)*60+SS)*1000+mmm, whatever the hours are.
C10_ParseFormula ==
    (call.op = "parseTimestamp" /\ IsTimestampForm(input.timestamp))
        => res.a = Some(((FieldValue(input.timestamp, 1, 2) * 60
                          + FieldValue(input.timestamp, 4, 2)) * 60
                         + FieldValue(input.timestamp, 7, 2)) * 1000
                        + FieldValue(input.timestamp, 10, 3))

\* 24:59:59,999 is accepted and converted
C10_Witness ==
    /\ call.op = "parseTimestamp"
    /\ input.timestamp = TimestampText(24, 59, 59, 999)
    /\ res.a = Some(89999999)

----------------------------------------------------------------------------
(* Claims about the timestamp resolver, under SpecResolve *)

\* the milliseconds of a well-formed timestamp, by the nested formula
Millis(s) ==
    ((FieldValue(s, 1, 2) * 60 + FieldValue(s, 4, 2)) * 60 + FieldValue(s, 7, 2)) * 1000
    + FieldValue(s, 10, 3)

\* a lookup of a.srt has returned and the file is indexed
Resolved ==
    /\ call.op = "getLinesAtTimestamp"
    /\ call.path = "a.srt"
    /\ srtCache["a.srt"] # Null

IndexedEntries == srtCache["a.srt"][1].entries

\* end_i < start_{i+1} for every two consecutive captions
DisjointInOrder(entries) ==
    \A i \in 1..(Len(entries) - 1) : entries[i].end < entries[i + 1].start

\* start_i <= end_i for every caption
ProperRanges(entries) == \A i \in 1..Len(entries) : entries[i].start <= entries[i].end

Contains(entry, t) == entry.start <= t /\ t <= entry.end

\* the answer the claim gives for target t: caption i's entry lines when range i
\* contains t, the no-match failure when no range does
AnswersByRange(entries, t) ==
    /\ \A i \in 1..Len(entries) :
          Contains(entries[i], t)
              => (res.success /\ res.entry = entries[i].entryLines)
    /\ (\A i \in 1..Len(entries) : ~Contains(entries[i], t))
          => res = [success |-> FALSE, message |-> NoMatch]

\* C1, as stated: with consecutive captions satisfying end_i < start_{i+1}, a
\* target inside range i returns caption i's entry lines and a target inside no
\* range returns the no-match failure.
C1_ResolvesDisjoint ==
    (Resolved /\ DisjointInOrder(IndexedEntries))
        => AnswersByRange(IndexedEntries, Millis(call.timestamp))

\* C1, amended: the same when, in addition, every caption has start_i <= end_i.
C1_ResolvesDisjointProper ==
    (Resolved /\ DisjointInOrder(IndexedEntries) /\ ProperRanges(IndexedEntries))
        => AnswersByRange(IndexedEntries, Millis(call.timestamp))

\* three captions in order, the target at the end of the third one, found
C1_Witness ==
    /\ Resolved
    /\ Len(IndexedEntries) = 3
    /\ DisjointInOrder(IndexedEntries) /\ ProperRanges(IndexedEntries)
    /\ Millis(call.timestamp) = IndexedEntries[3].end
    /\ res.success
    /\ res.entry = IndexedEntries[3].entryLines

\* two captions in order, the target in the gap between them, not found
C1_WitnessGap ==
    /\ Resolved
    /\ Len(IndexedEntries) = 2
    /\ DisjointInOrder(IndexedEntries) /\ ProperRanges(IndexedEntries)
    /\ IndexedEntries[1].end < Millis(call.timestamp)
    /\ Millis(call.timestamp) < IndexedEntries[2].start
    /\ res = [success |-> FALSE, message |-> NoMatch]

----------------------------------------------------------------------------
(* Claims about the window reader, under SpecWindow *)

\* the lines of a.srt as it is on disk
FileLines == Split(fs["a.srt"].content)

\* the elements {lineNumber, content} of the lines numbered lo..hi, ascending
Numbered(lines, lo, hi) ==
    [k \in 1..(hi - lo + 1) |-> [lineNumber |-> lo + k - 1, content |-> lines[lo + k - 1]]]

\* the last call was op on a.srt, with the windows as they are
Read(op) == call.op = op /\ call.path = "a.srt"

EmptyRead == res.success /\ res.lines = <<>>

\* C4: readPreviousLines(path, n) with window w on a file of N lines returns the
\* empty result with firstLineNumber null if n <= 1, otherwise exactly the
\* existing lines numbered max(1, n-w) .. n-1 in ascending order, with
\* firstLineNumber the number of the first returned line, or null when none.
C4_PreviousWindow ==
    Read("readPreviousLines") =>
        LET n == call.lineNumber
            w == SRT_CONTEXT_WINDOW
            lo == Max(1, n - w)
            hi == Min(Len(FileLines), n - 1)
        IN  IF n <= 1 THEN EmptyRead /\ res.firstLineNumber = Null
            ELSE /\ res.success
                 /\ res.lines = Numbered(FileLines, lo, hi)
                 /\ res.firstLineNumber = IF lo <= hi THEN Some(lo) ELSE Null
                 /\ Len(res.lines) <= w
                 /\ \A k \in 1..Len(res.lines) : res.lines[k].lineNumber < n

\* the two lines before line 4 of a four-line file, window 2
C4_Witness ==
    /\ Read("readPreviousLines")
    /\ call.lineNumber = 4
    /\ SRT_CONTEXT_WINDOW = 2
    /\ Len(FileLines) = 4
    /\ res.firstLineNumber = Some(2)
    /\ Len(res.lines) = 2
    /\ res.lines[2] = [lineNumber |-> 3, content |-> <<"0", "3">>]

\* C5: readNextLines(path, n) with window w on a file of N lines returns the
\* empty result with lastLineNumber null if n >= N, otherwise, for 0 <= n < N,
\* exactly the lines numbered n+1 .. min(N, n+w) in ascending order, with
\* lastLineNumber the number of the last returned line, or null when none.
C5_NextWindow ==
    Read("readNextLines") =>
        LET n == call.lineNumber
            w == SRT_CONTEXT_WINDOW
            lo == n + 1
            hi == Min(Len(FileLines), n + w)
        IN  IF n >= Len(FileLines) THEN EmptyRead /\ res.lastLineNumber = Null
            ELSE n >= 0 =>
                 /\ res.success
                 /\ res.lines = Numbered(FileLines, lo, hi)
                 /\ res.lastLineNumber = IF lo <= hi THEN Some(hi) ELSE Null
                 /\ Len(res.lines) <= w
                 /\ \A k \in 1..Len(res.lines) : res.lines[k].lineNumber > n

\* the two lines after line 1 of a four-line file, window 2
C5_Witness ==
    /\ Read("readNextLines")
    /\ call.lineNumber = 1
    /\ SRT_CONTEXT_WINDOW = 2
    /\ Len(FileLines) = 4
    /\ res.lastLineNumber = Some(3)
    /\ Len(res.lines) = 2
    /\ res.lines[1] = [lineNumber |-> 2, content |-> <<"0", "2">>]

OutOfRange(n) == n < 1 \/ n > Len(FileLines)

\* C6, as stated: for every line number outside 1..N both operations return
\* success with no lines and a null firstLineNumber / lastLineNumber.
C6_OutOfRangeEmpty ==
    /\ (Read("readPreviousLines") /\ OutOfRange(call.lineNumber))
          => (EmptyRead /\ res.firstLineNumber = Null)
    /\ (Read("readNextLines") /\ OutOfRange(call.lineNumber))
          => (EmptyRead /\ res.lastLineNumber = Null)

\* C6, amended: for every line number outside 1..N both operations return
\* success, never an error; readPreviousLines returns no lines and a null
\* firstLineNumber when the number is below 1, readNextLines returns no lines
\* and a null lastLineNumber when the number is above N.  (Beyond the file
\* readPreviousLines returns the existing lines of its window, below 1
\* readNextLines returns the first lines of the file.)
C6_OutOfRangeSucceeds ==
    /\ (Read("readPreviousLines") /\ OutOfRange(call.lineNumber))
          => /\ res.success
             /\ call.lineNumber < 1 => (res.lines = <<>> /\ res.firstLineNumber = Null)
    /\ (Read("readNextLines") /\ OutOfRange(call.lineNumber))
          => /\ res.success
             /\ call.lineNumber > Len(FileLines)
                   => (res.lines = <<>> /\ res.lastLineNumber = Null)

\* readNextLines two lines beyond a four-line file
C6_Witness ==
    /\ Read("readNextLines")
    /\ Len(FileLines) = 4
    /\ call.lineNumber = 6
    /\ res.success
    /\ res.lines = <<>>
    /\ res.lastLineNumber = Null

----------------------------------------------------------------------------
(* Claims about the lookup cache, under Spec *)

CachedOps == {"getLinesAtTimestamp", "readPreviousLines", "readNextLines"}

\* the index built from the file as it is on disk
IndexOnDisk(filePath) ==
    [version |-> fs[filePath].mtimeMs,
     lines |-> Split(fs[filePath].content),
     entries |-> extractEntries(Split(fs[filePath].content))]

\* what the call c returns when nothing is cached, with the files and windows of
\* the current state
Uncached(c) ==
    LET empty == [p \in Paths |-> Null]
    IN  CASE c.op = "getLinesAtTimestamp" ->
                 getLinesAtTimestamp(empty, fs, SRT_INIT_WINDOW, c.path, c.timestamp).result
          [] c.op = "readPreviousLines" ->
                 readPreviousLines(empty, fs, SRT_CONTEXT_WINDOW, c.path, c.lineNumber).result
          [] c.op = "readNextLines" ->
                 readNextLines(empty, fs, SRT_CONTEXT_WINDOW, c.path, c.lineNumber).result

\* this step is a public call that looks its path up (it reads the metadata)
LooksUp == call'.op \in CachedOps /\ io'.stats = 1

\* the path of the call of this step is cached, and the readable file on disk has
\* another content and another modification time than the cached index
RewrittenSinceCached ==
    LET p == call'.path
    IN  /\ srtCache[p] # Null
        /\ fs[p].exists /\ fs[p].readable
        /\ srtCache[p][1].version # fs[p].mtimeMs
        /\ srtCache[p][1].lines # Split(fs[p].content)

\* C2: a lookup of a cached path whose file was rewritten with another content
\* and another modification time rebuilds the index: the cache entry of the path
\* then holds the new version token with the lines and captions of the new
\* content, and the call returns what it returns on the new content.
C2_RebuildsAfterRewrite ==
    [][(LooksUp /\ RewrittenSinceCached)
         => /\ srtCache'[call'.path] = Some(IndexOnDisk(call'.path))
            /\ io'.reads = 1 /\ io'.replaced
            /\ res' = Uncached(call')]_vars

\* a.srt was indexed, then rewritten with the second content at time 1, and
\* readNextLines has replaced the older index and returned the new lines
C2_Witness ==
    /\ call.op = "readNextLines" /\ call.path = "a.srt" /\ call.lineNumber = 1
    /\ fs["a.srt"] = File(SampleContent2, 1, TRUE)
    /\ io = [stats |-> 1, reads |-> 1, replaced |-> TRUE]
    /\ srtCache["a.srt"] = Some(IndexOnDisk("a.srt"))
    /\ res.success
    /\ Len(res.lines) > 0
    /\ res.lines[1] = [lineNumber |-> 2, content |-> TextLine]

\* C3: the same call made again, with no change of the file or of a window in
\* between, returns an equal result, reads no file content when the first call
\* succeeded, and leaves the cache as it is.
C3_RepeatedCallIdempotent ==
    [][(call.op \in CachedOps /\ call' = call)
         => /\ res' = res
            /\ srtCache' = srtCache
            /\ res.success => io'.reads = 0]_vars

\* getLinesAtTimestamp has found the caption twice in a row, the second time
\* from the cache
C3_Witness ==
    /\ call.op = "getLinesAtTimestamp" /\ call.path = "a.srt"
    /\ res.success
    /\ io = [stats |-> 1, reads |-> 0, replaced |-> FALSE]
    /\ srtCache["a.srt"] = Some(IndexOnDisk("a.srt"))

Unavailable(filePath) == ~fs[filePath].exists \/ ~fs[filePath].readable

\* C7, as stated: with the file missing or unreadable, every public operation
\* returns success = false with a message, for every argument.
C7_UnavailableFails ==
    (call.op \in CachedOps /\ Unavailable(call.path))
        => (~res.success /\ res.message # "")

\* the path is cached with the modification time the file has now
ServedFromCache(filePath) ==
    /\ fs[filePath].exists
    /\ srtCache[filePath] # Null
    /\ srtCache[filePath][1].version = fs[filePath].mtimeMs

\* C7, amended: with the file missing or unreadable, every public operation
\* returns success = false with a message, except readPreviousLines with a line
\* number of at most 1 (it returns the empty successful result without looking
\* at the file), and except an unreadable file that is cached with its current
\* modification time (the cached index is used).
C7_UnavailableFailsUnlessUnread ==
    (/\ call.op \in CachedOps
     /\ Unavailable(call.path)
     /\ ~(call.op = "readPreviousLines" /\ call.lineNumber <= 1)
     /\ ~ServedFromCache(call.path))
        => (~res.success /\ res.message \in {ENOENT, EACCES, InvalidTimestamp})

\* a.srt was indexed and then removed: readNextLines fails with the system's message
C7_Witness ==
    /\ call.op = "readNextLines" /\ call.path = "a.srt"
    /\ ~fs["a.srt"].exists
    /\ srtCache["a.srt"] # Null
    /\ res = [success |-> FALSE, message |-> ENOENT]

----------------------------------------------------------------------------
(* Indexer runs: one file of a few lines of every kind, one target instant,
   looked up by the binary search and by the linear scan *)

MaxIndexLines == 3

IndexLines ==
    {TimingA, TimingB, TimingInverted, NearTimingLine, TextLine, BlankLine, SpaceLine}

IndexFiles ==
    {Join(ls, <<"\n">>) : ls \in LineSequences(IndexLines, MaxIndexLines)}

\* the start of TimingA and the end of TimingB
IndexTargets == {PointText(2), PointText(6)}

InitIndex ==
    \E content \in IndexFiles, timestamp \in IndexTargets :
        Loaded(OnlyA(content), Input(timestamp, <<>>, 0))

NextIndex ==
    \/ CallGetLinesAtTimestamp("a.srt", input.timestamp)
    \/ CallGetLineNumberAtTimestamp("a.srt", input.timestamp)

SpecIndex == InitIndex /\ [][NextIndex]_vars

----------------------------------------------------------------------------
(* Claims about the caption indexer, under SpecIndex *)

\* a.srt is indexed
Indexed == srtCache["a.srt"] # Null

\* what the lines of the sample text are, known from how the text was put
\* together and not from the pattern: the timing lines and their two instants
IsTimingLine(line) == line \in {TimingA, TimingB, TimingInverted}

TimingRange(line) ==
    CASE line = TimingA -> <<PointMs(2), PointMs(3)>>
      [] line = TimingB -> <<PointMs(5), PointMs(6)>>
      [] line = TimingInverted -> <<PointMs(10), PointMs(1)>>

IsBlankLine(line) == line \in {BlankLine, SpaceLine}

\* the 1-based number of the timing line of a caption
TimingLineNumber(entry) == entry.timestampLine + 1

\* C11, as stated: every caption of the index has start <= end.
C11_StartNotAfterEnd ==
    Indexed => \A i \in 1..Len(IndexedEntries) :
                   IndexedEntries[i].start <= IndexedEntries[i].end

\* C11, amended: every caption of the index carries the two instants of its
\* timing line as they are written, first as start and second as end; start <=
\* end holds for the captions whose line has them in that order and fails for a
\* line whose second instant is the earlier one.
C11_RangeAsWritten ==
    Indexed => \A i \in 1..Len(IndexedEntries) :
                   LET entry == IndexedEntries[i]
                       line == FileLines[TimingLineNumber(entry)]
                   IN  /\ IsTimingLine(line)
                       /\ entry.start = TimingRange(line)[1]
                       /\ entry.end = TimingRange(line)[2]
                       /\ (entry.start <= entry.end) <=> (line # TimingInverted)

\* a text line, then the inverted timing line: indexed with start > end
C11_Witness ==
    /\ Indexed
    /\ FileLines = <<TextLine, TimingInverted>>
    /\ Len(IndexedEntries) = 1
    /\ IndexedEntries[1].start = PointMs(10)
    /\ IndexedEntries[1].end = PointMs(1)

\* C12: the entry lines of every caption are non-empty, consecutive by line
\* number, contain the timing line, hold non-blank lines of the file only, and
\* are maximal: the line above the first and the line below the last is blank or
\* outside the file.
C12_EntryLinesAreTheBlock ==
    Indexed => \A i \in 1..Len(IndexedEntries) :
        LET entry == IndexedEntries[i]
            block == entry.entryLines
            first == block[1].lineNumber
            last == block[Len(block)].lineNumber
        IN  /\ Len(block) > 0
            /\ \A k \in 1..Len(block) :
                  /\ block[k].lineNumber = first + k - 1
                  /\ block[k].lineNumber \in 1..Len(FileLines)
                  /\ block[k].content = FileLines[block[k].lineNumber]
                  /\ ~IsBlankLine(block[k].content)
            /\ first <= TimingLineNumber(entry) /\ TimingLineNumber(entry) <= last
            /\ first = 1 \/ IsBlankLine(FileLines[first - 1])
            /\ last = Len(FileLines) \/ IsBlankLine(FileLines[last + 1])

\* a line of blanks, a text line, the timing line: the block is lines 2..3
C12_Witness ==
    /\ Indexed
    /\ FileLines = <<SpaceLine, TextLine, TimingA>>
    /\ Len(IndexedEntries) = 1
    /\ IndexedEntries[1].entryLines =
           <<[lineNumber |-> 2, content |-> TextLine],
             [lineNumber |-> 3, content |-> TimingA]>>

\* C13: the index holds one caption for each timing line of the file, in the
\* order of the lines, and none for any other line; a line that is no timing
\* line does not end the scan.
C13_OneCaptionPerTimingLine ==
    Indexed =>
        [i \in 1..Len(IndexedEntries) |-> TimingLineNumber(IndexedEntries[i])]
            = Ascending({n \in 1..Len(FileLines) : IsTimingLine(FileLines[n])})

\* a line that only looks like a timing line, then two timing lines in one block
C13_Witness ==
    /\ Indexed
    /\ FileLines = <<NearTimingLine, TimingA, TimingA>>
    /\ Len(IndexedEntries) = 2
    /\ TimingLineNumber(IndexedEntries[1]) = 2
    /\ TimingLineNumber(IndexedEntries[2]) = 3
    /\ IndexedEntries[1].entryLines = IndexedEntries[2].entryLines

----------------------------------------------------------------------------
(* Context runs: one file of numbered lines with one timing line among them,
   one target instant, the init window set *)

MaxInitLines == 4

MaxInitWindow == 2

\* n lines "01", "02", ... with TimingA as line l
ContextContent(n, l) ==
    Join([k \in 1..n |-> IF k = l THEN TimingA ELSE Pad2(k)], <<"\n">>)

\* inside TimingA, and after it
ContextTargets == {PointText(2), PointText(4)}

InitContext ==
    \E n \in 1..MaxInitLines, timestamp \in ContextTargets :
        \E l \in 1..n : Loaded(OnlyA(ContextContent(n, l)), Input(timestamp, <<>>, 0))

NextContext ==
    \/ \E value \in (-1)..MaxInitWindow : SetSrtInitWindow(Whole(value))
    \/ CallGetLinesAtTimestamp("a.srt", input.timestamp)

SpecContext == InitContext /\ [][NextContext]_vars

----------------------------------------------------------------------------
(* Claims about the context window of a match, under SpecContext *)

\* the number of the one timing line of the file
MatchedLine == CHOOSE n \in 1..Len(FileLines) : FileLines[n] = TimingA

\* a lookup of a.srt has found the caption
Matched == call.op = "getLinesAtTimestamp" /\ call.path = "a.srt" /\ res.success

\* C14: on a match of the timing line L of a file of N lines with init window W,
\* startLine = max(1, L - W), endLine = min(N, L + W), contextLines is the lines
\* startLine..endLine joined with a line feed, and 1 <= startLine <= L <= endLine
\* <= N; a target inside the caption is matched.
C14_ContextWindow ==
    /\ (call.op = "getLinesAtTimestamp" /\ call.timestamp = PointText(2)) => res.success
    /\ Matched =>
         LET L == MatchedLine
             W == SRT_INIT_WINDOW
             N == Len(FileLines)
         IN  /\ res.startLine = (IF L - W > 1 THEN L - W ELSE 1)
             /\ res.endLine = (IF L + W < N THEN L + W ELSE N)
             /\ res.contextLines
                  = Join(SubSeq(FileLines, res.startLine, res.endLine), <<"\n">>)
             /\ 1 <= res.startLine /\ res.startLine <= L
             /\ L <= res.endLine /\ res.endLine <= N

\* line 3 of 4 with window 1: lines 2..4
C14_Witness ==
    /\ Matched
    /\ Len(FileLines) = 4 /\ MatchedLine = 3 /\ SRT_INIT_WINDOW = 1
    /\ res.startLine = 2 /\ res.endLine = 4
    /\ res.contextLines = Pad2(2) \o <<"\n">> \o TimingA \o <<"\n">> \o Pad2(4)

\* line 1 of 4 with window 0: the timing line alone
C14_WitnessZero ==
    /\ Matched
    /\ Len(FileLines) = 4 /\ MatchedLine = 1 /\ SRT_INIT_WINDOW = 0
    /\ res.startLine = 1 /\ res.endLine = 1
    /\ res.contextLines = TimingA

----------------------------------------------------------------------------
(* Claims about the linear scan, under SpecIndex *)

\* the numbers of the timing lines whose range, as written, contains instant t
LinesContaining(t) ==
    {n \in 1..Len(FileLines) :
        /\ IsTimingLine(FileLines[n])
        /\ TimingRange(FileLines[n])[1] <= t
        /\ t <= TimingRange(FileLines[n])[2]}

\* the lines first..last are all non-blank
NonBlankRun(first, last) == \A k \in first..last : ~IsBlankLine(FileLines[k])

\* the numbered lines of the largest run of non-blank lines around line n
BlockAround(n) ==
    LET first == CHOOSE f \in 1..n :
                     NonBlankRun(f, n) /\ (f = 1 \/ IsBlankLine(FileLines[f - 1]))
        last == CHOOSE l \in n..Len(FileLines) :
                    NonBlankRun(n, l)
                    /\ (l = Len(FileLines) \/ IsBlankLine(FileLines[l + 1]))
    IN  [k \in 1..(last - first + 1) |->
            [lineNumber |-> first + k - 1, content |-> FileLines[first + k - 1]]]

Scanned == call.op = "getLineNumberAtTimestamp" /\ call.path = "a.srt"

\* C16: for a valid timestamp t the linear scan returns the number of the first
\* timing line in file order whose range contains t together with the whole
\* non-blank block around that line, and the no-match failure exactly when no
\* timing line's range contains t.
C16_ScanFindsFirst ==
    Scanned =>
        LET hits == LinesContaining(Millis(call.timestamp))
        IN  IF hits = {} THEN res = [success |-> FALSE, message |-> NoMatch]
            ELSE LET n == CHOOSE h \in hits : \A g \in hits : h <= g
                 IN  res = [success |-> TRUE, lineNumber |-> n, entry |-> BlockAround(n)]

\* a blank line, then TimingA twice in one block: the first of the two is found
C16_Witness ==
    /\ Scanned
    /\ FileLines = <<BlankLine, TimingA, TimingA>>
    /\ call.timestamp = PointText(2)
    /\ res.success
    /\ res.lineNumber = 2
    /\ Len(res.entry) = 2

\* the same lookup made by one resolver and then by the other
BothResolvers ==
    {call.op, call'.op} = {"getLinesAtTimestamp", "getLineNumberAtTimestamp"}

\* two results agree: both failures with one message, or both successes with
\* the same entry lines
SameAnswer(a, b) ==
    /\ a.success = b.success
    /\ IF a.success THEN a.entry = b.entry ELSE a.message = b.message

\* C18, as stated: for every file and every timestamp the two resolvers agree
\* on success or failure and, on success, on the entry lines.
C18_ResolversAgree ==
    [][BothResolvers => SameAnswer(res, res')]_vars

\* C18, amended: the two resolvers agree on the files whose captions are in
\* ascending order without overlap (start_i <= end_i < start_{i+1}).
C18_ResolversAgreeInOrder ==
    [][(/\ BothResolvers
        /\ DisjointInOrder(srtCache'["a.srt"][1].entries)
        /\ ProperRanges(srtCache'["a.srt"][1].entries))
          => SameAnswer(res, res')]_vars

\* after the binary search has indexed the file, the scan finds the second of
\* two captions in order, with the block the index holds for it
C18_Witness ==
    /\ Scanned
    /\ Indexed
    /\ FileLines = <<TimingA, BlankLine, TimingB>>
    /\ call.timestamp = PointText(6)
    /\ res.success
    /\ res.lineNumber = 3
    /\ res.entry = IndexedEntries[2].entryLines

----------------------------------------------------------------------------
(* Claims about overlapping captions, under SpecResolve *)

\* the captions of the index whose range contains instant t, by position
CaptionsContaining(t) ==
    {i \in 1..Len(IndexedEntries) : Contains(IndexedEntries[i], t)}

\* C17, as stated: when several captions contain the target, the caption
\* returned is the first of them in file order.
C17_FirstInFileOrder ==
    Resolved =>
        LET hits == CaptionsContaining(Millis(call.timestamp))
        IN  hits # {} =>
                LET first == CHOOSE h \in hits : \A g \in hits : h <= g
                IN  res.success /\ res.entry = IndexedEntries[first].entryLines

\* C17, amended: on any caption sequence a successful lookup returns a caption
\* whose range contains the target, the one the bisection stops at and not
\* always the first in file order; a target no caption contains gets the
\* no-match failure, and so may a target that some caption contains.
C17_SomeContainingCaption ==
    Resolved =>
        LET hits == CaptionsContaining(Millis(call.timestamp))
        IN  /\ res.success => \E h \in hits : res.entry = IndexedEntries[h].entryLines
            /\ ~res.success => res = [success |-> FALSE, message |-> NoMatch]
            /\ hits = {} => ~res.success

\* three captions with the same range: the middle one is returned
C17_Witness ==
    /\ Resolved
    /\ Len(IndexedEntries) = 3
    /\ CaptionsContaining(Millis(call.timestamp)) = {1, 2, 3}
    /\ res.success
    /\ res.entry = IndexedEntries[2].entryLines
    /\ res.entry # IndexedEntries[1].entryLines

----------------------------------------------------------------------------
(* Claims about one lookup of the cache, under Spec *)

\* the call c reaches getSrtData: it is not answered before the file is looked at
CallsGetSrtData(c) ==
    \/ c.op = "getLinesAtTimestamp" /\ IsTimestampForm(c.timestamp)
    \/ c.op = "readPreviousLines" /\ c.lineNumber > 1
    \/ c.op = "readNextLines"

\* the file exists and the cache has no index of it with its modification time
Stale(filePath) ==
    /\ fs[filePath].exists
    /\ \/ srtCache[filePath] = Null
       \/ srtCache[filePath][1].version # fs[filePath].mtimeMs

\* C19: a lookup reads the metadata of the file exactly once; it reads the
\* content if and only if the file has no cache entry or its modification time
\* differs from the cached version, whichever of the two is the later; the index
\* built from the content then replaces the entry of the path, and otherwise no
\* content is read and the cache is left as it is.
C19_OneStatReadIffStale ==
    [][(call'.op \in CachedOps /\ CallsGetSrtData(call'))
         => LET p == call'.path
            IN  /\ io'.stats = 1
                /\ io'.reads = (IF Stale(p) THEN 1 ELSE 0)
                /\ IF Stale(p) /\ fs[p].readable
                   THEN srtCache' = [srtCache EXCEPT ![p] = Some(IndexOnDisk(p))]
                   ELSE srtCache' = srtCache]_vars

\* a.srt was indexed at a later time and holds its first content at time 1 now:
\* readPreviousLines has read it again and replaced the index
C19_Witness ==
    /\ call.op = "readPreviousLines" /\ call.path = "a.srt" /\ call.lineNumber = 2
    /\ fs["a.srt"] = File(SampleContent1, 1, TRUE)
    /\ io = [stats |-> 1, reads |-> 1, replaced |-> TRUE]
    /\ srtCache["a.srt"] = Some(IndexOnDisk("a.srt"))
    /\ res.success /\ res.firstLineNumber = Some(1)

----------------------------------------------------------------------------
(* Lookups under way at the same time: getSrtData of a.srt taken one line at a
   time by each caller, the file rewritten between any two steps *)

MaxLookups == 2

MaxRewrites == 2

MaxRaceMtime == 2

RacePath == "a.srt"

\* a text of one timing line and a text of one other line
RaceContents == {TimingA, TextLine}

At(k, pc) == frames[k].pc = pc

Goto(k, frame) ==
    /\ frames' = [frames EXCEPT ![k] = frame]
    /\ UNCHANGED <<fs, SRT_CONTEXT_WINDOW, SRT_INIT_WINDOW, input, call, res, io, history, storage>>

\* const.ts:177, the function is entered
Enter(k) ==
    /\ At(k, "idle") \/ At(k, "done") \/ At(k, "threw")
    /\ frames[k].count < MaxLookups
    /\ Goto(k, Frame("stat", frames[k].count + 1, TRUE, 0, Null, Null))
    /\ UNCHANGED srtCache

\* the metadata read that also stamps the version on the entry the cache holds
StatStepTouching(k) ==
    LET stats == statSync(fs, RacePath)
    IN  /\ At(k, "stat")
        /\ IF stats.threw
           THEN Goto(k, [frames[k] EXCEPT !.pc = "threw"]) /\ UNCHANGED srtCache
           ELSE /\ Goto(k, [frames[k] EXCEPT !.pc = "get", !.settled = TRUE,
                                                  !.version = stats.mtimeMs])
                /\ srtCache' =
                     IF srtCache[RacePath] = Null THEN srtCache
                     ELSE [srtCache EXCEPT
                              ![RacePath] = Some([@[1] EXCEPT !.version = stats.mtimeMs])]

\* const.ts:178-179
StatStep(k) ==
    LET stats == statSync(fs, RacePath)
    IN  /\ At(k, "stat")
        /\ IF stats.threw
           THEN Goto(k, [frames[k] EXCEPT !.pc = "threw"])
           ELSE Goto(k, [frames[k] EXCEPT !.pc = "get", !.settled = TRUE,
                                          !.version = stats.mtimeMs])
        /\ UNCHANGED srtCache

\* the cache answering with whatever entry it holds for the path
GetStepAnyVersion(k) ==
    LET cached == srtCache[RacePath]
    IN  /\ At(k, "get")
        /\ IF cached # Null
           THEN Goto(k, [frames[k] EXCEPT !.pc = "done", !.version = 0, !.value = cached])
           ELSE Goto(k, [frames[k] EXCEPT !.pc = "read"])
        /\ UNCHANGED srtCache

\* const.ts:180-184
GetStep(k) ==
    LET cached == srtCache[RacePath]
    IN  /\ At(k, "get")
        /\ IF cached # Null /\ cached[1].version = frames[k].version
           THEN Goto(k, [frames[k] EXCEPT !.pc = "done", !.version = 0, !.value = cached])
           ELSE Goto(k, [frames[k] EXCEPT !.pc = "read"])
        /\ UNCHANGED srtCache

\* const.ts:186
ReadStep(k) ==
    LET read == readFileSync(fs, RacePath)
    IN  /\ At(k, "read")
        /\ IF read.threw
           THEN Goto(k, [frames[k] EXCEPT !.pc = "threw"])
           ELSE Goto(k, [frames[k] EXCEPT !.pc = "index", !.settled = TRUE,
                                          !.content = Some(read.content)])
        /\ UNCHANGED srtCache

\* const.ts:187-189
IndexStep(k) ==
    LET lines == Split(frames[k].content[1])
        entries == extractEntries(lines)
        value == [version |-> frames[k].version, lines |-> lines, entries |-> entries]
    IN  /\ At(k, "index")
        /\ Goto(k, [frames[k] EXCEPT !.pc = "set", !.version = 0, !.content = Null,
                                      !.value = Some(value)])
        /\ UNCHANGED srtCache

\* const.ts:191-192
SetStep(k) ==
    /\ At(k, "set")
    /\ srtCache' = [srtCache EXCEPT ![RacePath] = frames[k].value]
    /\ Goto(k, [frames[k] EXCEPT !.pc = "done"])

\* the file is rewritten: another text, or another modification time, or both
Rewrite(content, mtimeMs) ==
    /\ history.rewrites < MaxRewrites
    /\ fs[RacePath] # File(content, mtimeMs, TRUE)
    /\ fs' = [fs EXCEPT ![RacePath] = File(content, mtimeMs, TRUE)]
    /\ frames' = [k \in Callers |-> [frames[k] EXCEPT !.clean = FALSE, !.settled = FALSE]]
    /\ history' = [mtimes |-> history.mtimes \union {mtimeMs},
                   fresh |-> history.fresh /\ mtimeMs \notin history.mtimes,
                   timed |-> history.timed /\ (content # fs[RacePath].content
                                                  => mtimeMs # fs[RacePath].mtimeMs),
                   rewrites |-> history.rewrites + 1]
    /\ UNCHANGED <<srtCache, SRT_CONTEXT_WINDOW, SRT_INIT_WINDOW, input, call, res, io,
                 storage>>

InitRace == Loaded(OnlyA(TimingA), NoInput)

NextRace ==
    \/ \E k \in Callers : Enter(k)
    \/ \E k \in Callers : StatStep(k)
    \/ \E k \in Callers : GetStep(k)
    \/ \E k \in Callers : ReadStep(k)
    \/ \E k \in Callers : IndexStep(k)
    \/ \E k \in Callers : SetStep(k)
    \/ \E content \in RaceContents, mtimeMs \in 1..MaxRaceMtime : Rewrite(content, mtimeMs)

SpecRace == InitRace /\ [][NextRace]_vars

----------------------------------------------------------------------------
(* Claims about lookups under way at the same time, under SpecRace *)

\* the cache entry of the path is one whole index: the lines of one text the
\* file has held and the captions of exactly those lines
WholeIndex ==
    srtCache[RacePath] # Null =>
        LET value == srtCache[RacePath][1]
        IN  /\ DOMAIN value = {"version", "lines", "entries"}
            /\ \E content \in RaceContents : value.lines = Split(content)
            /\ value.entries = extractEntries(value.lines)
            /\ value.version \in history.mtimes

\* caller k has finished a lookup during which the file was left alone
FinishedUndisturbed(k) == At(k, "done") /\ frames[k].clean

\* the index a finished lookup returned is that of the text the file holds
ReturnedCurrent(k) ==
    /\ frames[k].value # Null
    /\ frames[k].value[1].lines = Split(fs[RacePath].content)
    /\ frames[k].value[1].entries = extractEntries(Split(fs[RacePath].content))

\* C20, as stated: whatever lookups and rewrites have interleaved, the cache
\* entry is one whole index, and a lookup made with no rewrite under way returns
\* an index of the text the file holds.
C20_RaceThenCurrent ==
    /\ WholeIndex
    /\ \A k \in Callers : FinishedUndisturbed(k) => ReturnedCurrent(k)

\* C20, amended: the same, provided every rewrite has given the file a
\* modification time it never had before.
C20_RaceThenCurrentIfFreshTimes ==
    /\ WholeIndex
    /\ history.fresh => \A k \in Callers : FinishedUndisturbed(k) => ReturnedCurrent(k)

\* caller 2 read the time and the text before a rewrite with a new time, caller
\* 1 after it; caller 1 stored its index first and caller 2 its older one last:
\* the cache holds the whole older index, under the older time
C20_Witness ==
    /\ history.fresh /\ history.rewrites = 1
    /\ fs[RacePath] = File(TextLine, 2, TRUE)
    /\ At(1, "done") /\ At(2, "done")
    /\ frames[1].value = Some([version |-> 2, lines |-> <<TextLine>>, entries |-> <<>>])
    /\ frames[2].value # Null
    /\ frames[2].value[1].version = 1 /\ frames[2].value[1].lines = <<TimingA>>
    /\ srtCache[RacePath] = frames[2].value

\* after such a race the next lookup, with the file left alone, has rebuilt the
\* index of the text the file holds
C20_WitnessNext ==
    /\ history.fresh /\ history.rewrites = 1
    /\ fs[RacePath] = File(TextLine, 2, TRUE)
    /\ At(1, "done") /\ frames[1].count = 2 /\ frames[1].clean
    /\ At(2, "done") /\ frames[2].count = 1 /\ ~frames[2].clean
    /\ frames[2].value # Null /\ frames[2].value[1].version = 1
    /\ srtCache[RacePath] = frames[1].value
    /\ ReturnedCurrent(1)

----------------------------------------------------------------------------
(* Two paths: both files are written and removed between the lookups *)

MaxPathMtime == 2

\* a text of one timing line and a text of one other line
PathContents == {TimingA, TextLine}

InitPaths == Loaded([p \in Paths |-> NoFile], NoInput)

NextPaths ==
    \/ \E p \in Paths, content \in PathContents, mtimeMs \in 1..MaxPathMtime :
          WriteFile(p, content, mtimeMs)
    \/ \E p \in Paths : RemoveFile(p)
    \/ \E p \in Paths : CallReadNextLines(p, 0)
    \/ \E p \in Paths : CallGetLinesAtTimestamp(p, PointText(2))

SpecPaths == InitPaths /\ [][NextPaths]_vars

----------------------------------------------------------------------------
(* Claims about the entries of the cache, under SpecPaths *)

\* C21: the cache holds at most one index for each path; a lookup of one path
\* leaves the entries of the other paths as they are; an entry is never removed,
\* it is only replaced as a whole by the index of the file as it is on disk; and
\* nothing but a lookup changes the cache.
C21_EntriesPerPath ==
    [][/\ \A p \in Paths :
             /\ Len(srtCache'[p]) <= 1
             /\ srtCache[p] # Null => srtCache'[p] # Null
             /\ srtCache'[p] # srtCache[p]
                   => (call'.path = p /\ srtCache'[p] = Some(IndexOnDisk(p)))
       /\ call'.op \notin CachedOps => srtCache' = srtCache]_vars

\* both paths are cached; a.srt was rewritten and its lookup has replaced its
\* entry, that of b.srt is the one built from b.srt
C21_Witness ==
    /\ call.op = "readNextLines" /\ call.path = "a.srt"
    /\ io.replaced
    /\ srtCache["a.srt"] = Some(IndexOnDisk("a.srt"))
    /\ srtCache["b.srt"] # Null
    /\ fs["b.srt"].exists
    /\ srtCache["b.srt"] = Some(IndexOnDisk("b.srt"))
    /\ srtCache["a.srt"] # srtCache["b.srt"]

\* a.srt was cached and then removed: its failed lookup has left the entry
C21_WitnessRemoved ==
    /\ call.op = "readNextLines" /\ call.path = "a.srt"
    /\ ~fs["a.srt"].exists
    /\ ~res.success
    /\ srtCache["a.srt"] # Null

----------------------------------------------------------------------------
(* Setting runs: one number, whole or not, negative or not, given to the two
   setters in any order *)

MaxSetting == 9

SettingDenominators == {1, 2, 4}

SettingValues ==
    {Rational(n, d) : n \in (0 - MaxSetting)..MaxSetting, d \in SettingDenominators}

SettingInput(value) ==
    [timestamp |-> <<>>, other |-> <<>>, lineNumber |-> 0, value |-> value]

InitSetting ==
    \E value \in SettingValues : Loaded([p \in Paths |-> NoFile], SettingInput(value))

NextSetting ==
    \/ SetSrtContextWindow(input.value)
    \/ SetSrtInitWindow(input.value)

SpecSetting == InitSetting /\ [][NextSetting]_vars

----------------------------------------------------------------------------
(* Claims about the window sizes, under SpecSetting *)

\* max(0, floor(n / d)) told by its bounds: 0 for a negative number, else the
\* integer k with k * d <= n < (k + 1) * d
ClampedFloor(value) ==
    IF value.num < 0 THEN 0
    ELSE CHOOSE k \in 0..value.num :
             k * value.den <= value.num /\ value.num < (k + 1) * value.den

C22_WitnessNegative ==
    /\ input.value = Rational(0 - 1, 2)
    /\ SRT_CONTEXT_WINDOW = 0
    /\ SRT_INIT_WINDOW = 0

----------------------------------------------------------------------------
(* Claims about the bisection on any caption sequence, under SpecResolve *)

\* C23: on any caption sequence, a successful lookup returns the entry lines of
\* a caption with start <= target <= end, both ends included, and a target
\* that no caption contains gets the no-match failure.
C23_MatchWithinRange ==
    Resolved =>
        LET t == Millis(call.timestamp)
            entries == IndexedEntries
        IN  /\ res.success =>
                  \E i \in 1..Len(entries) :
                      /\ entries[i].start <= t
                      /\ t <= entries[i].end
                      /\ res.entry = entries[i].entryLines
            /\ (\A i \in 1..Len(entries) : t < entries[i].start \/ t > entries[i].end)
                  => res = Failure(NoMatch)

\* captions out of order, the target equal to the end of the one returned
C23_Witness ==
    /\ Resolved
    /\ Len(IndexedEntries) = 3
    /\ ~DisjointInOrder(IndexedEntries)
    /\ \E i \in 1..3 :
          /\ Millis(call.timestamp) = IndexedEntries[i].end
          /\ IndexedEntries[i].start < IndexedEntries[i].end
          /\ res.success
          /\ res.entry = IndexedEntries[i].entryLines

\* captions out of order, none containing the target: no match
C23_WitnessNone ==
    /\ Resolved
    /\ Len(IndexedEntries) = 3
    /\ ~DisjointInOrder(IndexedEntries)
    /\ CaptionsContaining(Millis(call.timestamp)) = {}
    /\ res = Failure(NoMatch)

\* floor(log2(n)) for n >= 1
Log2Floor(n) == CHOOSE k \in 0..n : 2^k <= n /\ n < 2^(k + 1)

\* the iterations of the loop of the lookup that has returned
Iterations ==
    SearchIterations(IndexedEntries, Millis(call.timestamp), 0, Len(IndexedEntries) - 1)

\* C24: the loop ends on every caption sequence and target; from one iteration
\* to the next the interval [left, right] stays inside the previous one and
\* gets strictly shorter; with N captions there are at most floor(log2(N)) + 1
\* iterations, and none when N = 0. The last probe is the caption returned.
C24_LoopShrinksAndEnds ==
    Resolved =>
        LET n == Len(IndexedEntries)
            its == Iterations
        IN  /\ \A j \in 1..(Len(its) - 1) :
                  /\ its[j].left <= its[j + 1].left
                  /\ its[j + 1].right <= its[j].right
                  /\ its[j + 1].right - its[j + 1].left < its[j].right - its[j].left
            /\ \A j \in 1..Len(its) :
                  its[j].left <= its[j].mid /\ its[j].mid <= its[j].right
            /\ n = 0 => Len(its) = 0
            /\ n >= 1 => Len(its) <= Log2Floor(n) + 1
            /\ res.success =>
                  /\ Len(its) >= 1
                  /\ res.entry = IndexedEntries[its[Len(its)].mid + 1].entryLines

\* four captions, one of them inverted, and a target after all of them: the
\* loop gives up after floor(log2(4)) + 1 = 3 iterations
C24_Witness ==
    /\ Resolved
    /\ Len(IndexedEntries) = 4
    /\ ~ProperRanges(IndexedEntries)
    /\ Len(Iterations) = 3
    /\ res = Failure(NoMatch)

\* no caption at all: no iteration
C24_WitnessEmpty ==
    /\ Resolved
    /\ Len(IndexedEntries) = 0
    /\ Len(Iterations) = 0
    /\ res = Failure(NoMatch)

\* the starts and the ends of the captions are each in non-decreasing order;
\* two captions may overlap
MonotoneRanges(entries) ==
    \A i \in 1..(Len(entries) - 1) :
        /\ entries[i].start <= entries[i + 1].start
        /\ entries[i].end <= entries[i + 1].end

\* C25, as stated: on any caption sequence the indexer can produce, overlapping
\* or out of order included, a target that some caption contains is found.
C25_FoundWheneverContained ==
    (Resolved /\ CaptionsContaining(Millis(call.timestamp)) # {}) => res.success

\* C25, amended: a target that some caption contains is found when the starts
\* and the ends of the captions are each in non-decreasing file order,
\* overlapping captions included; on other sequences the lookup may return
\* the no-match failure although a caption contains the target.
C25_FoundWheneverContainedInOrder ==
    (/\ Resolved
     /\ MonotoneRanges(IndexedEntries)
     /\ CaptionsContaining(Millis(call.timestamp)) # {})
        => res.success

\* overlapping captions in order: the target lies in two of them and is found
C25_Witness ==
    /\ Resolved
    /\ Len(IndexedEntries) = 4
    /\ MonotoneRanges(IndexedEntries)
    /\ ~DisjointInOrder(IndexedEntries)
    /\ CaptionsContaining(Millis(call.timestamp)) = {3, 4}
    /\ res.success

\* a later caption written before an earlier one: the target lies in the
\* second caption and is not found
C25_WitnessMissed ==
    /\ Resolved
    /\ Len(IndexedEntries) = 2
    /\ ProperRanges(IndexedEntries)
    /\ IndexedEntries[2].end < IndexedEntries[1].start
    /\ CaptionsContaining(Millis(call.timestamp)) = {2}
    /\ res = Failure(NoMatch)

----------------------------------------------------------------------------
(* Claim about what a lookup returns among rewrites, under SpecRace *)

\* the step on which caller k's lookup returns
Returns(k) == frames[k].pc # "done" /\ frames'[k].pc = "done"

\* the index caller k's lookup returns on this step holds the lines and the
\* captions of the text the file holds as it returns
ReturnsIndexOfTextNow(k) ==
    /\ frames'[k].value # Null
    /\ frames'[k].value[1].lines = Split(fs'[RacePath].content)
    /\ frames'[k].value[1].entries = extractEntries(Split(fs'[RacePath].content))

\* C26, as stated: whatever rewrites and lookups came before, rewrites that
\* keep the modification time and rewrites between a lookup's metadata read
\* and its content read included, the index a lookup returns is that of the
\* text the file holds at the time the lookup returns.
C26_ReturnsCurrentIndex ==
    [][\A k \in Callers : Returns(k) => ReturnsIndexOfTextNow(k)]_vars

\* C26, amended: the same, provided every rewrite so far has given the file a
\* modification time it never had before and no rewrite has come after the
\* last read of the file the lookup made (the content read when it rebuilds,
\* the metadata read when it answers from the cache); a rewrite between the
\* metadata read and the content read is allowed.
C26_ReturnsCurrentIndexIfFreshTimes ==
    [][\A k \in Callers :
          (Returns(k) /\ history.fresh /\ frames[k].settled)
              => ReturnsIndexOfTextNow(k)]_vars

\* caller 1 read the time 1, the file was rewritten with the time 2, and the
\* caller then read and returned the new text, under the time 1
C26_Witness ==
    /\ history.fresh /\ history.rewrites = 1
    /\ fs[RacePath] = File(TextLine, 2, TRUE)
    /\ At(1, "done") /\ frames[1].count = 1
    /\ ~frames[1].clean /\ frames[1].settled
    /\ frames[1].value = Some([version |-> 1, lines |-> <<TextLine>>, entries |-> <<>>])
    /\ frames[2] = NoFrame

\* the text was changed under the same modification time after it was cached:
\* a lookup made afterwards, with the file left alone, returned the older text
C26_WitnessStale ==
    /\ ~history.fresh /\ history.rewrites = 1
    /\ fs[RacePath] = File(TextLine, 1, TRUE)
    /\ At(1, "done") /\ frames[1].count = 2
    /\ frames[1].clean /\ frames[1].settled
    /\ frames[1].value = Some([version |-> 1, lines |-> <<TimingA>>,
                               entries |-> extractEntries(<<TimingA>>)])
    /\ frames[2] = NoFrame

----------------------------------------------------------------------------
(* Claim about a lookup that throws, under Spec *)

\* the lookup that call c makes throws: the metadata read throws on a missing
\* file; the content read, made when the path is not cached under the time the
\* file has, throws on a file that is there for stat and cannot be read
LookupThrows(c) ==
    /\ c.op \in CachedOps
    /\ CallsGetSrtData(c)
    /\ \/ ~fs[c.path].exists
       \/ ~fs[c.path].readable /\ ~ServedFromCache(c.path)

\* the lookup that call c makes finds the file and can read it
LookupCanRead(c) ==
    /\ c.op \in CachedOps
    /\ CallsGetSrtData(c)
    /\ fs[c.path].exists /\ fs[c.path].readable

\* C27: a public operation whose lookup throws, in the metadata read or in the
\* content read, returns success = false with the system's message and leaves
\* the whole cache as it was, the entry of the path included; an operation
\* called when the file is there again does not fail on the file: the window
\* reads succeed and the timestamp lookup succeeds or finds no match.
C27_FailedLookupKeepsCache ==
    [][/\ LookupThrows(call') =>
              /\ ~res'.success
              /\ res'.message \in {ENOENT, EACCES}
              /\ srtCache' = srtCache
       /\ LookupCanRead(call') =>
              /\ res'.success \/ res' = Failure(NoMatch)
              /\ call'.op # "getLinesAtTimestamp" => res'.success
              /\ srtCache'[call'.path] # Null]_vars

\* a.srt was cached, then rewritten with another time and made unreadable: stat
\* returns, the content read throws, the operation fails and the older entry
\* is still cached
C27_Witness ==
    /\ call.op = "readPreviousLines" /\ call.path = "a.srt" /\ call.lineNumber = 2
    /\ fs["a.srt"].exists /\ ~fs["a.srt"].readable
    /\ srtCache["a.srt"] # Null
    /\ srtCache["a.srt"][1].version # fs["a.srt"].mtimeMs
    /\ io = [stats |-> 1, reads |-> 1, replaced |-> FALSE]
    /\ res = Failure(EACCES)

\* a.srt is there again with another text than the cached one, and the lookup
\* has rebuilt the entry
C27_WitnessRestored ==
    /\ call.op = "getLinesAtTimestamp" /\ call.path = "a.srt"
    /\ fs["a.srt"].exists /\ fs["a.srt"].readable
    /\ io = [stats |-> 1, reads |-> 1, replaced |-> TRUE]
    /\ srtCache["a.srt"] = Some(IndexOnDisk("a.srt"))
    /\ res.success

----------------------------------------------------------------------------
(* The window readers of const.ts and of read_srt.ts side by side: a.srt is
   rewritten between the calls, with any text and any modification time *)

MaxReaderLines == 2

MaxReaderMtime == 2

MaxReaderWindow == 1

ReaderContents == {NumberedContent(n) : n \in 1..MaxReaderLines} \union {TextLine}

ReaderLineNumbers == 0..(MaxReaderLines + 1)

\* the file gets another text, or another modification time, or both; the
\* history tells whether every time so far was new (fresh) and whether every
\* change of the text came with a change of the time (timed)
RewriteFile(filePath, content, mtimeMs) ==
    /\ fs[filePath].exists
    /\ fs[filePath] # File(content, mtimeMs, TRUE)
    /\ fs' = [fs EXCEPT ![filePath] = File(content, mtimeMs, TRUE)]
    /\ history' = [history EXCEPT
                      !.mtimes = @ \union {mtimeMs},
                      !.fresh = @ /\ mtimeMs \notin history.mtimes,
                      !.timed = @ /\ (content # fs[filePath].content
                                         => mtimeMs # fs[filePath].mtimeMs)]
    /\ call' = NoCall
    /\ res' = NoResult
    /\ io' = NoIo
    /\ UNCHANGED <<srtCache, SRT_CONTEXT_WINDOW, SRT_INIT_WINDOW, input, frames,
                 storage>>

InitReaders ==
    \E content \in ReaderContents, lineNumber \in ReaderLineNumbers :
        Loaded(OnlyA(content), Input(<<>>, <<>>, lineNumber))

NextReaders ==
    \/ \E content \in ReaderContents, mtimeMs \in 1..MaxReaderMtime :
          RewriteFile("a.srt", content, mtimeMs)
    \/ \E value \in 0..MaxReaderWindow : SetSrtContextWindow(Whole(value))
    \/ CallReadPreviousLines("a.srt", input.lineNumber)
    \/ CallReadNextLines("a.srt", input.lineNumber)
    \/ CallReadSrtReadPreviousLines("a.srt", input.lineNumber)
    \/ CallReadSrtReadNextLines("a.srt", input.lineNumber)

SpecReaders == InitReaders /\ [][NextReaders]_vars

\* the reader of read_srt.ts that does what operation op of const.ts does
ReadSrtOp(op) ==
    IF op = "readPreviousLines" THEN "read_srt.readPreviousLines"
    ELSE IF op = "readNextLines" THEN "read_srt.readNextLines"
    ELSE "none"

\* on this step a window reader of one module is called right after the same
\* reader of the other module was, with the same path and line number and
\* nothing changed in between
CalledAfterItsTwin ==
    /\ call.path = call'.path
    /\ call.lineNumber = call'.lineNumber
    /\ \/ call'.op # "none" /\ call'.op = ReadSrtOp(call.op)
       \/ call.op # "none" /\ call.op = ReadSrtOp(call'.op)

\* C28, as stated: as long as every change of the file's text came with a
\* change of its modification time, the readers of const.ts return what the
\* readers of read_srt.ts return, for every text, line number and window.
C28_SameAsUncached ==
    [][(history.timed /\ CalledAfterItsTwin) => res' = res]_vars

\* C28, amended: the same as long as every rewrite gave the file a
\* modification time it never had before.
C28_SameAsUncachedIfFreshTimes ==
    [][(history.fresh /\ CalledAfterItsTwin) => res' = res]_vars

\* after a rewrite with a new time the cached reader has rebuilt the index, and
\* the uncached one, called next, returns the same line of the new text
C28_Witness ==
    /\ history.fresh /\ history.mtimes = {1, 2}
    /\ fs["a.srt"] = File(NumberedContent(2), 2, TRUE)
    /\ srtCache["a.srt"] = Some(IndexOnDisk("a.srt"))
    /\ SRT_CONTEXT_WINDOW = 1
    /\ call = Call("read_srt.readNextLines", "a.srt", <<>>, 1)
    /\ res = [success |-> TRUE, lastLineNumber |-> Some(2),
              lines |-> <<[lineNumber |-> 2, content |-> Pad2(2)]>>]
    /\ res = readNextLines(srtCache, fs, SRT_CONTEXT_WINDOW, "a.srt", 1).result

\* the text was changed with a change of the time, and the time then set back
\* to the one the cached index has: the uncached reader returns the new text,
\* the cached one would return the older text
C28_WitnessTimeSetBack ==
    /\ history.timed /\ ~history.fresh
    /\ fs["a.srt"].exists
    /\ srtCache["a.srt"] # Null
    /\ srtCache["a.srt"][1].version = fs["a.srt"].mtimeMs
    /\ srtCache["a.srt"][1].lines # Split(fs["a.srt"].content)
    /\ call.op = "read_srt.readNextLines" /\ call.lineNumber = 0
    /\ res.success
    /\ res # readNextLines(srtCache, fs, SRT_CONTEXT_WINDOW, "a.srt", 0).result

----------------------------------------------------------------------------
(* The four operations, and the window readers of read_srt.ts, on one file
   that is left alone: timing lines, text lines and blank lines in any order *)

MaxElementLines == 3

MaxElementWindow == 1

ElementLines == {TimingA, TextLine, BlankLine}

ElementFiles ==
    {Join(ls, <<"\n">>) : ls \in LineSequences(ElementLines, MaxElementLines)}

\* line numbers below, inside and beyond every file
ElementLineNumbers == (-1)..(MaxElementLines + 2)

InitElements ==
    \E content \in ElementFiles, lineNumber \in ElementLineNumbers :
        Loaded(OnlyA(content), Input(PointText(2), <<>>, lineNumber))

NextElements ==
    \/ \E value \in 0..MaxElementWindow : SetSrtContextWindow(Whole(value))
    \/ CallGetLinesAtTimestamp("a.srt", input.timestamp)
    \/ CallGetLineNumberAtTimestamp("a.srt", input.timestamp)
    \/ CallReadPreviousLines("a.srt", input.lineNumber)
    \/ CallReadNextLines("a.srt", input.lineNumber)
    \/ CallReadSrtReadPreviousLines("a.srt", input.lineNumber)
    \/ CallReadSrtReadNextLines("a.srt", input.lineNumber)

SpecElements == InitElements /\ [][NextElements]_vars

\* every element has a line number of the file and the text of that line, and
\* the line numbers go up by one from each element to the next
WellNumbered(elements) ==
    \A j \in 1..Len(elements) :
        /\ 1 <= elements[j].lineNumber
        /\ elements[j].lineNumber <= Len(FileLines)
        /\ elements[j].content = FileLines[elements[j].lineNumber]
        /\ j < Len(elements) => elements[j + 1].lineNumber = elements[j].lineNumber + 1

WindowOps ==
    {"readPreviousLines", "readNextLines",
     "read_srt.readPreviousLines", "read_srt.readNextLines"}

ResolverOps == {"getLinesAtTimestamp", "getLineNumberAtTimestamp"}

\* C29: in every successful result, the elements {lineNumber, content} of the
\* list returned (lines for the window readers, entry for the two resolvers)
\* have 1 <= lineNumber <= N, hold the text of that line of the file, and are
\* numbered consecutively in ascending order.
C29_ElementsAreFileLines ==
    res.success =>
        /\ call.op \in WindowOps => WellNumbered(res.lines)
        /\ call.op \in ResolverOps => WellNumbered(res.entry)

\* readPreviousLines(4) on a file of three lines, a window of 300: the lines 1,
\* 2 and 3, a blank one among them
C29_Witness ==
    /\ FileLines = <<TextLine, BlankLine, TimingA>>
    /\ call = Call("readPreviousLines", "a.srt", <<>>, 4)
    /\ SRT_CONTEXT_WINDOW = DefaultContextWindow
    /\ res.success
    /\ res.lines = <<[lineNumber |-> 1, content |-> TextLine],
                     [lineNumber |-> 2, content |-> BlankLine],
                     [lineNumber |-> 3, content |-> TimingA]>>

\* the caption of lines 2 and 3 is returned by getLinesAtTimestamp
C29_WitnessEntry ==
    /\ FileLines = <<BlankLine, TimingA, TextLine>>
    /\ call.op = "getLinesAtTimestamp"
    /\ res.success
    /\ res.entry = <<[lineNumber |-> 2, content |-> TimingA],
                     [lineNumber |-> 3, content |-> TextLine]>>

----------------------------------------------------------------------------
(* Claim about PostgreSQLPersistentStorage *)

InitStorage == Loaded([p \in Paths |-> NoFile], NoInput)

NextStorage ==
    \/ Connect
    \/ \E resolves \in BOOLEAN : PoolConnect(resolves)
    \/ \E resolves \in BOOLEAN : SaverSetup(resolves)
    \/ \E resolves \in BOOLEAN : CreateUserSessionMappingTable(resolves)
    \/ \E resolves \in BOOLEAN : CreateConversationAnalyticsTable(resolves)
    \/ Disconnect
    \/ \E resolves \in BOOLEAN : PoolEnd(resolves)
    \/ GetSaver
    \/ IsConnected

SpecStorage == InitStorage /\ [][NextStorage]_vars

\* the fields of the object
Fields(s) == [pool |-> s.pool, saver |-> s.saver, connected |-> s.connected]

\* C30: whatever calls were made and whichever of them failed: connected is
\* true only after the four setup steps of a connect() have completed and
\* until the next disconnect() that succeeds; the saver is then not null;
\* getSaver() returns the saver when connected is true and throws when it is
\* false, isConnected() returns connected; a connect() that throws leaves
\* connected false; connect() on a connected object and disconnect() on a
\* disconnected one return without changing a field or awaiting anything.
C30_ConnectionStateMachine ==
    [][/\ storage'.connected => (storage'.steps = 4 /\ storage'.saver # Null)
       /\ (storage'.pc = "idle" /\ storage'.ret.op = "getSaver") =>
              /\ storage'.ret.threw <=> ~storage'.connected
              /\ ~storage'.ret.threw => storage'.ret.value = storage'.saver
       /\ (storage'.pc = "idle" /\ storage'.ret.op = "isConnected") =>
              storage'.ret.value = Some(storage'.connected)
       /\ (storage'.pc = "idle" /\ storage'.ret = Throwing("connect")) =>
              ~storage'.connected
       /\ (Idle /\ storage.connected /\ storage'.ret.op = "connect") =>
              (storage'.pc = "idle" /\ ~storage'.ret.threw
               /\ Fields(storage') = Fields(storage))
       /\ (Idle /\ ~storage.connected /\ storage'.ret.op = "disconnect") =>
              (storage'.pc = "idle" /\ ~storage'.ret.threw
               /\ Fields(storage') = Fields(storage))]_vars

\* connected after a second connect(), and getSaver() has returned the saver
\* that connect() made
C30_Witness ==
    /\ Idle
    /\ storage.connected /\ storage.steps = 4
    /\ storage.pool = "ended"
    /\ storage.savers = 2
    /\ storage.ret = Returning("getSaver", Some(2))

\* a connect() failed in saver.setup(): a saver is set, connected is false, and
\* getSaver() has thrown
C30_WitnessFailed ==
    /\ Idle
    /\ ~storage.connected /\ storage.steps = 1
    /\ storage.saver = Some(1)
    /\ storage.ret = Throwing("getSaver")

====
